---- MODULE Spec2Model ----
(***************************************************************************)
(* Model of the sheet-to-sheet transfer pipeline of dataflow-pro:          *)
(* getFilteredData, findDuplicates, appendDataChunk, deleteRows and        *)
(* executeDataTransfer of GAS_code.gs, with the code.gs variants of the    *)
(* filter, the duplicate filter, the row-number mapping and the chunking.  *)
(*                                                                         *)
(* A sheet is a record [headers, rows]; row 1 of the sheet is the header   *)
(* row, data row k of the model is sheet row k + 1.  Every cell is a       *)
(* string (a numeric cell is its decimal text, as toString() gives it).    *)
(* JavaScript indices are 0-based and are kept 0-based in every value the  *)
(* code computes (uniqueRows, duplicateRows, column indices).              *)
(***************************************************************************)
EXTENDS Integers, Sequences, FiniteSets, TLC

\* ------------------------------------------------------------------------
\* Program constants
\* ------------------------------------------------------------------------

CHUNK_SIZE == 100

REQUIRED_HEADERS ==
  << "DATE", "ORDER ID", "TRACKING ID", "CUSTOMER NAME", "PHONE", "CITY", "COD",
     "REMARKS ON STATUS", "AGENT NAME", "STATUS", "EXPORT", "DELIVERY TYPE",
     "RETURN REASON", "REMARKS IF RETURNED" >>

\* ------------------------------------------------------------------------
\* Bounds of the model
\* ------------------------------------------------------------------------

\* number of freely chosen rows at the top of the source sheet
MaxArb == 2
\* number of generated rows (distinct numeric ORDER IDs) below them
MaxBulk == 149
\* deleteRows may fail after this many completed sheet.deleteRow calls
MaxFailPoint == 1
\* length of a row-number list handed to deleteRows directly
MaxList == 3
\* largest row number in such a list
MaxRowNum == 4
\* data rows of the sheet such a call works on
MaxSheetRows == 3
\* the leading canonical headers whose presence and spelling vary
MaxVaried == 4
\* POST /api/spreadsheets/transfer requests in flight or answered
MaxRequests == 2
\* largest value of the clock Date.now() reads
MaxClock == 5
\* createTransfer calls on MemStorage
MaxTransfers == 2
\* rows of a chunk handed to appendDataChunk directly
MaxChunkRows == 2
\* cells of such a row
MaxCells == 5

\* ------------------------------------------------------------------------
\* JavaScript values
\* ------------------------------------------------------------------------

\* An invalid Date: every comparison with it is false.
NaN == -1

MS_PER_DAY == 24 * 60 * 60 * 1000

\* new Date(x) as milliseconds since 2024-01-01T00:00 (script time zone UTC).
NewDate(s) ==
  CASE s = "2024-01-09"       -> 8 * MS_PER_DAY
    [] s = "2024-01-10"       -> 9 * MS_PER_DAY
    [] s = "2024-01-11"       -> 10 * MS_PER_DAY
    [] s = "2024-01-11T15:30" -> 10 * MS_PER_DAY + (15 * 60 + 30) * 60 * 1000
    [] s = "2024-01-12"       -> 11 * MS_PER_DAY
    [] OTHER                  -> NaN

\* a >= b and a <= b on Date objects
DateGe(a, b) == a # NaN /\ b # NaN /\ a >= b
DateLe(a, b) == a # NaN /\ b # NaN /\ a <= b

\* String.prototype.trim
Trim(s) ==
  CASE s = " A"        -> "A"
    [] s = "A "        -> "A"
    [] s = " "         -> ""
    [] s = " pending " -> "pending"
    [] s = "Pending "  -> "Pending"
    [] s = " STATUS "  -> "STATUS"
    [] s = " Date"     -> "Date"
    [] s = " Order Id " -> "Order Id"
    [] s = " NOTES "   -> "NOTES"
    [] OTHER           -> s

\* String.prototype.toLowerCase
ToLowerCase(s) ==
  CASE s = "A"                 -> "a"
    [] s = "B"                 -> "b"
    [] s = "Pending"           -> "pending"
    [] s = "PENDING"           -> "pending"
    [] s = "Pending "          -> "pending "
    [] s = "Delivered"         -> "delivered"
    [] s = "DELIVERED"         -> "delivered"
    [] s = "DATE"              -> "date"
    [] s = "Order Date"        -> "order date"
    [] s = " Date"             -> " date"
    [] s = "ORDER ID"          -> "order id"
    [] s = "TRACKING ID"       -> "tracking id"
    [] s = "STATUS"            -> "status"
    [] s = " STATUS "          -> " status "
    [] s = "REMARKS ON STATUS" -> "remarks on status"
    [] s = "NOTES"             -> "notes"
    [] OTHER                   -> s

\* String.prototype.includes, on lower-cased header names
Includes(s, sub) ==
  CASE sub = "date"     -> s \in {"date", "order date", " date"}
    [] sub = "status"   -> s \in {"status", " status ", "remarks on status"}
    [] sub = "order"    -> s \in {"order id", "order date"}
    [] sub = "tracking" -> s \in {"tracking id"}
    [] sub = "id"       -> s \in {"order id", "tracking id"}
    [] OTHER            -> FALSE

\* Truthiness of a cell (a string): only the empty string is falsy.
Truthy(c) == c # ""

\* row[j] for a 0-based column index j; undefined is read as the empty
\* string, which is as falsy as undefined.
Cell(row, j) == IF j >= 0 /\ j + 1 <= Len(row) THEN row[j + 1] ELSE ""

\* Array.prototype.indexOf / findIndex: first 0-based index, or -1
RECURSIVE FindIndexFrom(_, _)
FindIndexFrom(hits, k) ==
  IF k > Len(hits) THEN -1
  ELSE IF hits[k] THEN k - 1
  ELSE FindIndexFrom(hits, k + 1)

\* hits[k] tells whether the callback accepts the k-th element
FindIndex(hits) == FindIndexFrom(hits, 1)

IndexOf(seq, x) == FindIndex([k \in 1 .. Len(seq) |-> seq[k] = x])

\* arr.slice(from, to) with 0-based from (inclusive) and to (exclusive)
Slice(arr, from, to) ==
  LET hi == IF to > Len(arr) THEN Len(arr) ELSE to
  IN  IF from >= hi THEN << >> ELSE SubSeq(arr, from + 1, hi)

Max(a, b) == IF a >= b THEN a ELSE b

\* the array with the elements of f, built once
ArrayOf(f) == SubSeq(f, 1, Len(f))

\* ------------------------------------------------------------------------
\* Sheets
\* ------------------------------------------------------------------------

\* sheet.getLastRow(): the header row plus the data rows
GetLastRow(sheet) == 1 + Len(sheet.rows)

\* ------------------------------------------------------------------------
\* getFilteredData (GAS_code.gs)
\* ------------------------------------------------------------------------

HeaderHasDate(header) == Includes(ToLowerCase(header), "date")
HeaderHasStatus(header) == Includes(ToLowerCase(header), "status")

\* headers.findIndex(header => header.toString().toLowerCase().includes('date'))
DateColIndex(headers) == FindIndex([k \in 1 .. Len(headers) |-> HeaderHasDate(headers[k])])

\* headers.findIndex(header => header.toString().toLowerCase().includes('status'))
StatusColIndex(headers) == FindIndex([k \in 1 .. Len(headers) |-> HeaderHasStatus(headers[k])])

\* a date test that forgets the upper bound
DateMatchNoUpperBound(cell, fromDateObj, toDateObj) ==
  DateGe(NewDate(cell), fromDateObj)

\* cellDate >= fromDateObj && cellDate <= toDateObj
DateMatch(cell, fromDateObj, toDateObj) ==
  /\ DateGe(NewDate(cell), fromDateObj)
  /\ DateLe(NewDate(cell), toDateObj)

\* rowStatus.toLowerCase() === status.toLowerCase(), rowStatus trimmed
StatusMatch(cell, status) == ToLowerCase(Trim(cell)) = ToLowerCase(status)

\* the callback of dataRows.filter
RowMatches(row, dateColIndex, statusColIndex, fromDateObj, toDateObj, status) ==
  LET dateMatch == DateMatch(Cell(row, dateColIndex), fromDateObj, toDateObj)
  IN  IF Truthy(status) /\ statusColIndex # -1
      THEN dateMatch /\ StatusMatch(Cell(row, statusColIndex), status)
      ELSE dateMatch

\* filteredRows.map((_, index) => index + 2)
SourceRowNumbersOf(filteredRows) ==
  ArrayOf([k \in 1 .. Len(filteredRows) |-> (k - 1) + 2])

GetFilteredData(sheet, fromDate, toDate, status) ==
  IF ~Truthy(fromDate) \/ ~Truthy(toDate)
  THEN [error |-> "Failed to filter data: All parameters are required for data filtering",
        headers |-> << >>, rows |-> << >>, rowCount |-> 0, sourceRowNumbers |-> << >>]
  ELSE IF GetLastRow(sheet) < 2
  THEN [error |-> "", headers |-> REQUIRED_HEADERS, rows |-> << >>, rowCount |-> 0,
        sourceRowNumbers |-> << >>]
  ELSE IF DateColIndex(sheet.headers) = -1
  THEN [error |-> "Failed to filter data: Date column not found. Please ensure your sheet has a DATE column.",
        headers |-> << >>, rows |-> << >>, rowCount |-> 0, sourceRowNumbers |-> << >>]
  ELSE LET dateColIndex == DateColIndex(sheet.headers)
           statusColIndex == StatusColIndex(sheet.headers)
           fromDateObj == NewDate(fromDate)
           toDateObj == NewDate(toDate)
           Keep(row) == RowMatches(row, dateColIndex, statusColIndex,
                                   fromDateObj, toDateObj, status)
           filteredRows == SelectSeq(sheet.rows, Keep)
       IN  [error |-> "", headers |-> sheet.headers, rows |-> filteredRows,
            rowCount |-> Len(filteredRows),
            sourceRowNumbers |-> SourceRowNumbersOf(filteredRows)]

\* the 0-based indices in dataRows of the rows dataRows.filter keeps
FilteredIndex(sheet, fromDate, toDate, status) ==
  LET dateColIndex == DateColIndex(sheet.headers)
      statusColIndex == StatusColIndex(sheet.headers)
      fromDateObj == NewDate(fromDate)
      toDateObj == NewDate(toDate)
      KeepAt(k) == RowMatches(sheet.rows[k + 1], dateColIndex, statusColIndex,
                              fromDateObj, toDateObj, status)
  IN  SelectSeq(ArrayOf([k \in 1 .. Len(sheet.rows) |-> k - 1]), KeepAt)

\* ------------------------------------------------------------------------
\* findDuplicates (GAS_code.gs)
\* ------------------------------------------------------------------------

\* REQUIRED_HEADERS.indexOf('ORDER ID')
OrderIdColIndex == IndexOf(REQUIRED_HEADERS, "ORDER ID")

\* row[orderIdColIndex] ? row[orderIdColIndex].toString().trim() : ''
OrderIdOf(row) ==
  LET c == Cell(row, OrderIdColIndex) IN IF Truthy(c) THEN Trim(c) ELSE ""

\* a read of the existing ORDER IDs that stops after the first row
ExistingOrderIdsFirstRowOnly(existingData) ==
  { Trim(Cell(existingData[k], OrderIdColIndex)) :
      k \in { j \in 1 .. Len(existingData) :
                j = 1 /\ Truthy(Cell(existingData[j], OrderIdColIndex)) } }

\* existingData.forEach(row => { if (row[col]) existingOrderIds.add(...trim()) })
ExistingOrderIds(existingData) ==
  { Trim(Cell(existingData[k], OrderIdColIndex)) :
      k \in { j \in 1 .. Len(existingData) :
                Truthy(Cell(existingData[j], OrderIdColIndex)) } }

\* a forEach body without the else: a duplicate is also kept as unique
DuplicateStepNoElse(acc, row, index) ==
  LET orderId == OrderIdOf(row)
      flagged == IF Truthy(orderId) /\ orderId \in acc.ids
                 THEN [acc EXCEPT !.duplicateRows = Append(@, index)]
                 ELSE acc
  IN  [flagged EXCEPT !.uniqueRows = Append(@, index),
                      !.ids = IF Truthy(orderId) THEN @ \cup {orderId} ELSE @]

\* one iteration of newData.forEach((row, index) => ...); acc carries the
\* key set and the two index lists
DuplicateStep(acc, row, index) ==
  LET orderId == OrderIdOf(row)
  IN  IF Truthy(orderId) /\ orderId \in acc.ids
      THEN [acc EXCEPT !.duplicateRows = Append(@, index)]
      ELSE [acc EXCEPT !.uniqueRows = Append(@, index),
                       !.ids = IF Truthy(orderId) THEN @ \cup {orderId} ELSE @]

\* newData.forEach over the rows lo .. hi, in order (the range is halved so
\* that the evaluation stays shallow; the steps run left to right)
RECURSIVE DuplicateLoop(_, _, _, _)
DuplicateLoop(newData, lo, hi, acc) ==
  IF lo > hi THEN acc
  ELSE IF lo = hi THEN DuplicateStep(acc, newData[lo], lo - 1)
  ELSE LET mid == (lo + hi) \div 2
           left == DuplicateLoop(newData, lo, mid, acc)
       IN  IF Len(left.uniqueRows) >= 0   \* the left half is evaluated first
           THEN DuplicateLoop(newData, mid + 1, hi, left)
           ELSE left

FindDuplicates(newData, existingData) ==
  IF OrderIdColIndex = -1
  THEN [uniqueRows |-> ArrayOf([k \in 1 .. Len(newData) |-> k - 1]),
        duplicateRows |-> << >>]
  ELSE LET acc == DuplicateLoop(newData, 1, Len(newData),
                    [ids |-> ExistingOrderIds(existingData),
                     uniqueRows |-> << >>, duplicateRows |-> << >>])
       IN  [uniqueRows |-> acc.uniqueRows, duplicateRows |-> acc.duplicateRows]

\* ------------------------------------------------------------------------
\* appendDataChunk (GAS_code.gs)
\* ------------------------------------------------------------------------

\* Math.max(...chunk.map(row => row.length))
MaxRowLength(chunk) ==
  LET lengths == { Len(chunk[k]) : k \in 1 .. Len(chunk) }
  IN  IF lengths = {} THEN 0 ELSE CHOOSE m \in lengths : \A n \in lengths : m >= n

\* Math.max(headers.length, ...chunk.map(row => row.length))
NumCols(chunk, headers) == Max(Len(headers), MaxRowLength(chunk))

\* pad with '' up to numCols, then slice(0, numCols)
NormalizeRow(row, numCols) ==
  ArrayOf([c \in 1 .. numCols |-> IF c <= Len(row) THEN row[c] ELSE ""])

NormalizeChunk(chunk, headers) ==
  LET numCols == NumCols(chunk, headers)
  IN  ArrayOf([k \in 1 .. Len(chunk) |-> NormalizeRow(chunk[k], numCols)])

\* an append that starts at the last row instead of the row after it
AppendDataChunkOverLastRow(sheet, chunk, headers) ==
  [sheet EXCEPT !.rows = SubSeq(@, 1, Len(@) - 1) \o NormalizeChunk(chunk, headers)]

\* sheet.getRange(lastRow + 1, 1, n, numCols).setValues(normalizedChunk)
AppendDataChunk(sheet, chunk, headers) ==
  [sheet EXCEPT !.rows = @ \o NormalizeChunk(chunk, headers)]

\* ------------------------------------------------------------------------
\* deleteRows (GAS_code.gs)
\* ------------------------------------------------------------------------

\* [...rowNums].sort((a, b) => b - a): the stable descending order; the
\* element at index k goes to position SortRank(rowNums)[k]
SortRank(rowNums) ==
  ArrayOf([k \in 1 .. Len(rowNums) |->
     1 + Cardinality({ j \in 1 .. Len(rowNums) :
                         \/ rowNums[j] > rowNums[k]
                         \/ rowNums[j] = rowNums[k] /\ j < k })])

\* the sort with the comparator reversed: (a, b) => a - b
SortAscending(rowNums) ==
  LET rank == SortRank(rowNums)
      n == Len(rowNums)
  IN  ArrayOf([p \in 1 .. n |->
         rowNums[CHOOSE k \in 1 .. n : rank[k] = n + 1 - p]])

\* [...rowNums].sort((a, b) => b - a)
SortDescending(rowNums) ==
  LET rank == SortRank(rowNums)
  IN  ArrayOf([p \in 1 .. Len(rowNums) |->
         rowNums[CHOOSE k \in 1 .. Len(rowNums) : rank[k] = p]])

\* sheet.deleteRow(rowNum): the rows below move up; deleting row 1 removes the
\* header row, and the first data row, if any, takes its place
DeleteRow(sheet, rowNum) ==
  IF rowNum = 1
  THEN IF sheet.rows = << >>
       THEN [sheet EXCEPT !.headers = << >>]
       ELSE [sheet EXCEPT !.headers = Head(sheet.rows), !.rows = Tail(sheet.rows)]
  ELSE [sheet EXCEPT !.rows = SubSeq(@, 1, rowNum - 2) \o SubSeq(@, rowNum, Len(@))]

\* a guard that lets row 1 through: rowNum > 0
DeleteGuardFromRowOne(sheet, rowNum) == rowNum > 0 /\ rowNum <= GetLastRow(sheet)

\* if (rowNum > 1 && rowNum <= sheet.getLastRow())
DeleteGuard(sheet, rowNum) == rowNum > 1 /\ rowNum <= GetLastRow(sheet)

\* one iteration of sortedRows.forEach; acc carries the sheet and the
\* sheet.deleteRow calls issued so far
DeleteStep(acc, rowNum) ==
  IF DeleteGuard(acc.sheet, rowNum)
  THEN [sheet |-> DeleteRow(acc.sheet, rowNum), calls |-> Append(acc.calls, rowNum)]
  ELSE acc

\* sortedRows.forEach over the positions lo .. hi, in order (halved like
\* DuplicateLoop)
RECURSIVE DeleteLoop(_, _, _, _)
DeleteLoop(sortedRows, lo, hi, acc) ==
  IF lo > hi THEN acc
  ELSE IF lo = hi THEN DeleteStep(acc, sortedRows[lo])
  ELSE LET mid == (lo + hi) \div 2
           left == DeleteLoop(sortedRows, lo, mid, acc)
       IN  IF Len(left.calls) >= 0   \* the left half is evaluated first
           THEN DeleteLoop(sortedRows, mid + 1, hi, left)
           ELSE left

\* deleteRows stopped by an exception after n iterations (n = Len: none)
DeleteRowsUpTo(sheet, rowNums, n) ==
  DeleteLoop(SortDescending(rowNums), 1, n, [sheet |-> sheet, calls |-> << >>])

\* ------------------------------------------------------------------------
\* code.gs: getFilteredData, getExistingKeys and steps 3 and 4 of its
\* executeDataTransfer
\* ------------------------------------------------------------------------

\* toDateObj.setHours(23, 59, 59, 999)
SetHoursEndOfDay(d) == IF d = NaN THEN NaN ELSE d - (d % MS_PER_DAY) + MS_PER_DAY - 1

\* Utilities.formatDate(cell, tz, 'yyyy-MM-dd') for a Date cell, toString()
\* for any other
SerializeCell(c) == IF c = "2024-01-11T15:30" THEN "2024-01-11" ELSE c

SerializeRow(row) == ArrayOf([c \in 1 .. Len(row) |-> SerializeCell(row[c])])

CodeGsGetFilteredData(sheet, fromDate, toDate) ==
  IF ~Truthy(fromDate) \/ ~Truthy(toDate)
  THEN [error |-> "Failed to retrieve filtered data: All parameters are required: ssId, sheetName, fromDate, toDate",
        headers |-> << >>, rows |-> << >>, rowCount |-> 0]
  ELSE IF DateColIndex(sheet.headers) = -1
  THEN [error |-> "Failed to retrieve filtered data: Date column not found in the sheet",
        headers |-> << >>, rows |-> << >>, rowCount |-> 0]
  ELSE LET dateColumnIndex == DateColIndex(sheet.headers)
           fromDateObj == NewDate(fromDate)
           toDateObj == SetHoursEndOfDay(NewDate(toDate))
           Keep(row) == DateMatch(Cell(row, dateColumnIndex), fromDateObj, toDateObj)
           filteredRows == SelectSeq(sheet.rows, Keep)
       IN  [error |-> "", headers |-> sheet.headers,
            rows |-> ArrayOf([k \in 1 .. Len(filteredRows) |-> SerializeRow(filteredRows[k])]),
            rowCount |-> Len(filteredRows)]

HeaderIsOrderId(h) == Includes(ToLowerCase(h), "order") /\ Includes(ToLowerCase(h), "id")
HeaderIsTrackingId(h) == Includes(ToLowerCase(h), "tracking") /\ Includes(ToLowerCase(h), "id")

\* headers.findIndex(h => ... 'order' ... 'id') and (... 'tracking' ... 'id')
OrderIdIndex(headers) == FindIndex([k \in 1 .. Len(headers) |-> HeaderIsOrderId(headers[k])])
TrackingIdIndex(headers) == FindIndex([k \in 1 .. Len(headers) |-> HeaderIsTrackingId(headers[k])])

\* `${row[orderIdIndex]}_${row[trackingIdIndex]}`
TwoPartKey(row, orderIdIndex, trackingIdIndex) ==
  Cell(row, orderIdIndex) \o "_" \o Cell(row, trackingIdIndex)

\* getExistingKeys: the keys of the rows that have both parts
GetExistingKeys(sheet) ==
  LET orderIdIndex == OrderIdIndex(sheet.headers)
      trackingIdIndex == TrackingIdIndex(sheet.headers)
  IN  IF Len(sheet.rows) = 0 THEN [error |-> "", keys |-> {}]
      ELSE IF orderIdIndex = -1 \/ trackingIdIndex = -1
      THEN [error |-> "Failed to retrieve existing keys: ORDER ID or TRACKING ID column not found",
            keys |-> {}]
      ELSE [error |-> "",
            keys |-> { TwoPartKey(sheet.rows[k], orderIdIndex, trackingIdIndex) :
                         k \in { j \in 1 .. Len(sheet.rows) :
                                   /\ Truthy(Cell(sheet.rows[j], orderIdIndex))
                                   /\ Truthy(Cell(sheet.rows[j], trackingIdIndex)) } }]

\* sourceData.rows.forEach((row, index) => ...) of code.gs, as the 0-based
\* indices it puts in duplicateRows and in uniqueRows, with the row numbers
\* it pushes for the latter
CodeGsDuplicateCheck(rows, headers, existingKeys) ==
  LET orderIdIndex == OrderIdIndex(headers)
      trackingIdIndex == TrackingIdIndex(headers)
      IsDup(index) == TwoPartKey(rows[index + 1], orderIdIndex, trackingIdIndex) \in existingKeys
      IsNew(index) == ~IsDup(index)
      indices == ArrayOf([k \in 1 .. Len(rows) |-> k - 1])
      unique == SelectSeq(indices, IsNew)
  IN  [uniqueRows |-> unique,
       duplicateRows |-> SelectSeq(indices, IsDup),
       sourceRowNumbers |-> ArrayOf([k \in 1 .. Len(unique) |-> unique[k] + 2])]

\* steps 1 to 3 of code.gs executeDataTransfer
CodeGsPrepare(source, destination, fromDate, toDate) ==
  LET sd == CodeGsGetFilteredData(source, fromDate, toDate)
      ek == GetExistingKeys(destination)
      none == [rows |-> << >>, existingKeys |-> {}, uniqueRows |-> << >>,
               duplicateRows |-> << >>, sourceRowNumbers |-> << >>]
  IN  IF sd.error # "" THEN [error |-> sd.error] @@ none
      ELSE IF sd.rowCount = 0 THEN [error |-> ""] @@ none
      ELSE IF ek.error # "" THEN [error |-> ek.error] @@ none
      ELSE IF OrderIdIndex(sd.headers) = -1
              \/ TrackingIdIndex(sd.headers) = -1
      THEN [error |-> "ORDER ID or TRACKING ID columns not found in source data"] @@ none
      ELSE [error |-> "", rows |-> sd.rows, existingKeys |-> ek.keys]
           @@ CodeGsDuplicateCheck(sd.rows, sd.headers, ek.keys)

\* step 4 of code.gs executeDataTransfer: the chunks array
ChunksOf(rows) ==
  ArrayOf([k \in 1 .. (Len(rows) + CHUNK_SIZE - 1) \div CHUNK_SIZE |->
             Slice(rows, (k - 1) * CHUNK_SIZE, (k - 1) * CHUNK_SIZE + CHUNK_SIZE)])

\* the error code.gs executeDataTransfer throws when appendChunk fails on
\* chunks[i]: `Failed to transfer chunk ${i + 1}: ${chunkError.message}`
CodeGsChunkError(i, cause) ==
  "Failed to transfer chunk " \o ToString(i + 1) \o ": " \o cause

\* ------------------------------------------------------------------------
\* validateHeaders (GAS_code.gs and code.gs)
\* ------------------------------------------------------------------------

\* String.prototype.toUpperCase, on header names
ToUpperCase(s) ==
  CASE s = "date"          -> "DATE"
    [] s = "Order Id"      -> "ORDER ID"
    [] s = "Tracking Id"   -> "TRACKING ID"
    [] s = "Customer Name" -> "CUSTOMER NAME"
    [] s = "Phone"         -> "PHONE"
    [] s = "City"          -> "CITY"
    [] s = "Notes"         -> "NOTES"
    [] s = "notes"         -> "NOTES"
    [] OTHER               -> s

\* h.toString().trim().toUpperCase()
NormalizeHeader(h) == ToUpperCase(Trim(h))

NormalizeHeaders(headers) ==
  ArrayOf([k \in 1 .. Len(headers) |-> NormalizeHeader(headers[k])])

\* arr.includes(x)
ArrayIncludes(arr, x) == \E k \in 1 .. Len(arr) : arr[k] = x

\* the value validateHeaders returns: null, or a mismatch report
HeadersMatch == [isNull |-> TRUE, expected |-> << >>, missing |-> << >>, extra |-> << >>]

MismatchReport(missing, extra) ==
  [isNull |-> FALSE, expected |-> REQUIRED_HEADERS, missing |-> missing, extra |-> extra]

\* validateHeaders of GAS_code.gs
ValidateHeaders(sourceHeaders, destHeaders) ==
  LET destHeadersStr == NormalizeHeaders(destHeaders)
      requiredHeadersStr == NormalizeHeaders(REQUIRED_HEADERS)
      NotInDest(header) == ~ArrayIncludes(destHeadersStr, header)
      NotRequired(header) == ~ArrayIncludes(requiredHeadersStr, header)
      missing == SelectSeq(requiredHeadersStr, NotInDest)
      extra == SelectSeq(destHeadersStr, NotRequired)
  IN  IF Len(missing) > 0 \/ Len(extra) > 0
      THEN MismatchReport(missing, extra)
      ELSE HeadersMatch

\* validateHeaders of code.gs
CodeGsValidateHeaders(sourceHeaders, destHeaders) ==
  LET normalizedSource == NormalizeHeaders(sourceHeaders)
      normalizedDest == NormalizeHeaders(destHeaders)
      normalizedRequired == NormalizeHeaders(REQUIRED_HEADERS)
      NotInDest(reqHeader) == ~ArrayIncludes(normalizedDest, reqHeader)
      SourceOnly(srcHeader) == /\ ~ArrayIncludes(normalizedDest, srcHeader)
                               /\ ArrayIncludes(normalizedRequired, srcHeader)
      missing == SelectSeq(normalizedRequired, NotInDest)
      extra == SelectSeq(normalizedSource, SourceOnly)
  IN  IF Len(missing) > 0 \/ Len(extra) > 0
      THEN MismatchReport(
             ArrayOf([k \in 1 .. Len(missing) |->
                        REQUIRED_HEADERS[IndexOf(normalizedRequired, missing[k]) + 1]]),
             ArrayOf([k \in 1 .. Len(extra) |->
                        sourceHeaders[IndexOf(normalizedSource, extra[k]) + 1]]))
      ELSE HeadersMatch

\* ------------------------------------------------------------------------
\* State
\* ------------------------------------------------------------------------

VARIABLES
  src,               \* the source sheet
  dst,               \* the destination sheet
  pc,                \* "idle", "transfer" (chunk loop), "delete" (step 6), "done"
  op,                \* the call in progress or finished: "none", "executeDataTransfer",
                     \* "executeDataTransferAgain" (its second run), "deleteRows", ...
  params,            \* transferParams of the call
  sourceData,        \* result of getFilteredData
  uniqueRows,        \* duplicateCheck.uniqueRows
  duplicateRows,     \* duplicateCheck.duplicateRows
  dataToTransfer,    \* rows to append
  sourceRowNumbers,  \* their source row numbers, as the executor computes them
  i,                 \* loop variable of the chunk loop
  transferredCount,
  result,            \* the value executeDataTransfer returned
  appendCalls,       \* every appendDataChunk call: [chunk, ok]
  deleteRowsCalls,   \* every deleteRows call: [rowNums, ok]
  deleteCalls,       \* every sheet.deleteRow call issued, in order
  src0,              \* the source sheet when the call started
  dst0,              \* the destination sheet when the call started
  filteredIndex,     \* 0-based index in dataRows of each row dataRows.filter kept
  transferProgress,  \* the transferProgress Map of the routes: transferId -> record
  now,               \* Date.now()
  reqs,              \* the POST /api/spreadsheets/transfer requests: where each handler is
  transfers,         \* MemStorage.transfers: id -> Transfer
  lookup,            \* the last progress lookup and what it returned
  runs               \* two executeDataTransfer calls running at the same time: where each is

vars == << src, dst, pc, op, params, sourceData, uniqueRows, duplicateRows,
           dataToTransfer, sourceRowNumbers, i, transferredCount, result,
           appendCalls, deleteRowsCalls, deleteCalls, src0, dst0, filteredIndex,
           transferProgress, now, reqs, transfers, lookup, runs >>

\* the state of the progress tracker
tracker == << transferProgress, now, reqs, transfers, lookup >>

\* the state of the sheets and of the executeDataTransfer call
executor == << src, dst, pc, params, sourceData, uniqueRows, duplicateRows,
               dataToTransfer, sourceRowNumbers, i, transferredCount, result,
               appendCalls, deleteRowsCalls, deleteCalls, src0, dst0, filteredIndex,
               runs >>

locals == << sourceData, uniqueRows, duplicateRows, dataToTransfer,
             sourceRowNumbers, i, transferredCount, filteredIndex >>

\* ------------------------------------------------------------------------
\* The progress tracker before any request or call
\* ------------------------------------------------------------------------

\* new Map()
EmptyMap == [id \in {} |-> {}]

\* map.has(id), map.get(id) (where has) and map.set(id, value)
MapHas(map, id) == id \in DOMAIN map
MapGet(map, id) == map[id]
MapSet(map, id, value) == [k \in DOMAIN map \cup {id} |-> IF k = id THEN value ELSE map[k]]

\* a request that has not arrived: where its handler is (pc), the parsed body,
\* data.rowCount, rowsToTransfer.length (dataLength), duplicateCount, the
\* transferId and loop variable i of executeTransfer, whether the timer the
\* handler awaits has fired, and the response sent
NoRequest == [pc |-> "none", mode |-> "", duplicateHandling |-> "", rowCount |-> 0,
              dataLength |-> 0, duplicateCount |-> 0, transferId |-> "", i |-> 0,
              timerFired |-> FALSE, response |-> [code |-> 0, message |-> "", transferId |-> ""]]

NoLookup == [op |-> "none", id |-> "", code |-> 0, body |-> [message |-> ""]]

TrackerIdle ==
  /\ transferProgress = EmptyMap
  /\ now = 0
  /\ reqs = [r \in 1 .. MaxRequests |-> NoRequest]
  /\ transfers = EmptyMap
  /\ lookup = NoLookup

\* ------------------------------------------------------------------------
\* Sheet contents the model starts from
\* ------------------------------------------------------------------------

Layouts ==
  { << "DATE", "ORDER ID", "TRACKING ID", "STATUS" >>,
    << "DATE", "ORDER ID", "REMARKS ON STATUS", "STATUS" >>,
    << "Order Date", "ORDER ID" >>,
    << "ORDER ID", "STATUS" >> }

DstHeaders == << "DATE", "ORDER ID", "TRACKING ID", "STATUS" >>

\* the fields of a row; MkRow lays them out under the headers
RowTypes ==
  { [date |-> "2024-01-10", id |-> "A",  trk |-> "T1", status |-> "Pending",   remark |-> ""],
    [date |-> "2024-01-11", id |-> " A", trk |-> "T1", status |-> " pending ", remark |-> "Delivered"],
    [date |-> "2024-01-09", id |-> "B",  trk |-> "T1", status |-> "Pending",   remark |-> "Pending"],
    [date |-> "2024-01-10", id |-> "",   trk |-> "",   status |-> "Delivered", remark |-> "Pending"],
    [date |-> "",           id |-> "B",  trk |-> "T2", status |-> "Pending",   remark |-> ""],
    [date |-> "2024-01-11T15:30", id |-> "B", trk |-> "T1", status |-> "Pending", remark |-> ""] }

FieldOf(t, header) ==
  CASE header \in {"DATE", "Order Date"} -> t.date
    [] header = "ORDER ID"               -> t.id
    [] header = "TRACKING ID"            -> t.trk
    [] header = "STATUS"                 -> t.status
    [] header = "REMARKS ON STATUS"      -> t.remark
    [] OTHER                             -> ""

MkRow(headers, t) == ArrayOf([c \in 1 .. Len(headers) |-> FieldOf(t, headers[c])])

BulkRow(headers, k) ==
  MkRow(headers, [date |-> "2024-01-10", id |-> ToString(k), trk |-> "T1",
                  status |-> "Pending", remark |-> ""])

BulkRows(headers, n) == ArrayOf([k \in 1 .. n |-> BulkRow(headers, k)])

BulkSizes == {CHUNK_SIZE - 1, MaxBulk}

ArbRows(headers) ==
  UNION { [1 .. n -> { MkRow(headers, t) : t \in RowTypes }] : n \in 0 .. MaxArb }

DstRowSets ==
  { << >> } \cup
  { << MkRow(DstHeaders, [date |-> "2024-01-10", id |-> d, trk |-> "T1",
                          status |-> "Pending", remark |-> ""]) >> :
      d \in {"A", "5", ""} }

\* the names of the two sheets, and the sheet names a caller passes
SourceSheetName == "Orders"
DestSheetName == "Archive"
SourceSheetNames == {SourceSheetName, "Missing"}
DestSheetNames == {DestSheetName, "Missing"}

FromDates == {"2024-01-10"}
ToDates == {"2024-01-10", "2024-01-11"}
StatusFilters == {"", "PENDING"}
Modes == {"copy", "move"}

NoResult == [success |-> FALSE, transferredRows |-> 0, duplicatesFound |-> 0,
             message |-> "(no result)"]
NoParams == [sourceSheetName |-> "", destSheetName |-> "", fromDate |-> "", toDate |-> "",
             status |-> "", mode |-> "copy"]
NoSourceData == [error |-> "", headers |-> << >>, rows |-> << >>, rowCount |-> 0,
                 sourceRowNumbers |-> << >>]

\* the two concurrent calls
Transfers == {1, 2}

\* a call that has not started: where it is (pc), its transferParams, the rows
\* it is to append, its loop variable i, the startRow its appendDataChunk has
\* computed, its transferredCount and duplicateRows.length, and whether the
\* other call was running when it started
NoRun == [pc |-> "none", params |-> NoParams, dataToTransfer |-> << >>, i |-> 0,
          startRow |-> 0, transferredCount |-> 0, duplicatesFound |-> 0,
          overlapped |-> FALSE]

InitWith(source, destination) ==
  /\ runs = [t \in Transfers |-> NoRun]
  /\ src = source
  /\ dst = destination
  /\ pc = "idle"
  /\ op = "none"
  /\ params = NoParams
  /\ sourceData = NoSourceData
  /\ uniqueRows = << >>
  /\ duplicateRows = << >>
  /\ dataToTransfer = << >>
  /\ sourceRowNumbers = << >>
  /\ i = 0
  /\ transferredCount = 0
  /\ result = NoResult
  /\ appendCalls = << >>
  /\ deleteRowsCalls = << >>
  /\ deleteCalls = << >>
  /\ src0 = source
  /\ dst0 = destination
  /\ filteredIndex = << >>
  /\ TrackerIdle

\* a source sheet of up to MaxArb freely chosen rows, beside a destination
\* of at most one row
InitSmall ==
  \E headers \in Layouts : \E arb \in ArbRows(headers), rows \in DstRowSets :
    InitWith([headers |-> headers, rows |-> arb],
             [headers |-> DstHeaders, rows |-> rows])

\* a source sheet of at most one freely chosen row above a run of generated
\* rows, beside a destination that is empty or holds ORDER ID 5
InitBulk ==
  \E headers \in Layouts : \E arb \in ArbRows(headers), b \in BulkSizes, rows \in DstRowSets :
    /\ b > 0
    /\ Len(arb) <= 1
    /\ (IF rows = << >> THEN TRUE ELSE Cell(rows[1], OrderIdColIndex) = "5")
    /\ InitWith([headers |-> headers, rows |-> arb \o BulkRows(headers, b)],
                [headers |-> DstHeaders, rows |-> rows])

Init == InitSmall \/ InitBulk

\* ------------------------------------------------------------------------
\* executeDataTransfer (GAS_code.gs)
\* ------------------------------------------------------------------------

\* const { sourceSheetName, destSheetName, fromDate, toDate, status,
\* mode = 'copy' } = transferParams
TransferParams(p) ==
  [sourceSheetName |-> p.sourceSheetName, destSheetName |-> p.destSheetName,
   fromDate |-> p.fromDate, toDate |-> p.toDate, status |-> p.status, mode |-> p.mode]

\* getFilteredData when spreadsheet.getSheetByName(sheetName) returns null
SheetNotFound(sheetName) ==
  [error |-> "Failed to filter data: Sheet \"" \o sheetName \o "\" not found in spreadsheet",
   headers |-> << >>, rows |-> << >>, rowCount |-> 0, sourceRowNumbers |-> << >>]

\* the error of Step 2 when destSpreadsheet.getSheetByName(destSheetName)
\* returns null
DestinationNotFound(destSheetName) == "Destination sheet \"" \o destSheetName \o "\" not found"

\* a catch block that reports the counts reached before the failure
FailureResultWithCounts(message) ==
  [success |-> FALSE, transferredRows |-> transferredCount,
   duplicatesFound |-> Len(duplicateRows),
   message |-> "Transfer failed: " \o message]

\* a catch block that only logs the error, after which the function returns
\* its closing value
FailureResultLoggedOnly(message) ==
  [success |-> TRUE, transferredRows |-> transferredCount,
   duplicatesFound |-> Len(duplicateRows),
   message |-> "Successfully copied " \o ToString(transferredCount) \o " rows. "
               \o ToString(Len(duplicateRows)) \o " duplicates were skipped."]

\* the value returned by the catch block of executeDataTransfer
FailureResult(message) ==
  [success |-> FALSE, transferredRows |-> 0, duplicatesFound |-> 0,
   message |-> "Transfer failed: " \o message]

\* the value returned at the end of executeDataTransfer
SuccessResult(mode, count, duplicates) ==
  [success |-> TRUE, transferredRows |-> count, duplicatesFound |-> duplicates,
   message |-> (IF mode = "move" THEN "Successfully moved " ELSE "Successfully copied ")
               \o ToString(count) \o " rows. " \o ToString(duplicates)
               \o " duplicates were skipped."]

\* uniqueRows.map(index => arr[index])
PickByIndex(arr, indices) ==
  ArrayOf([k \in 1 .. Len(indices) |-> arr[indices[k] + 1]])

\* a slice that runs one row into the next chunk
ChunkAtOverlapping(data, at) == Slice(data, at, at + CHUNK_SIZE + 1)

\* dataToTransfer.slice(i, i + CHUNK_SIZE)
ChunkAt(data, at) == Slice(data, at, at + CHUNK_SIZE)

\* sourceRowNumbers.slice(0, transferredCount)
RowsToDelete(rowNumbers, count) == Slice(rowNumbers, 0, count)

\* Steps 1 to 4 without the early returns in move mode: with nothing to
\* transfer the call goes on to Step 6, whose guard does not look at
\* transferredCount
StartTransferDeletesAnyway(p) ==
  /\ pc = "idle"
  /\ op' = "executeDataTransfer"
  /\ params' = TransferParams(p)
  /\ src0' = src
  /\ dst0' = dst
  /\ LET sd == IF p.sourceSheetName # SourceSheetName
               THEN SheetNotFound(p.sourceSheetName)
               ELSE GetFilteredData(src, p.fromDate, p.toDate, p.status)
         existingData == IF GetLastRow(dst) > 1 THEN dst.rows ELSE << >>
         dup == FindDuplicates(sd.rows, existingData)
     IN  /\ sourceData' = sd
         /\ filteredIndex' = IF sd.error = "" /\ GetLastRow(src) >= 2
                             THEN FilteredIndex(src, p.fromDate, p.toDate, p.status)
                             ELSE << >>
         /\ IF sd.error # ""
            THEN /\ result' = FailureResult(sd.error)
                 /\ pc' = "done"
                 /\ UNCHANGED << uniqueRows, duplicateRows, dataToTransfer, sourceRowNumbers >>
            ELSE IF sd.rowCount = 0
            THEN /\ result' = [success |-> TRUE, transferredRows |-> 0, duplicatesFound |-> 0,
                               message |-> "No data found for the selected date range."]
                 /\ pc' = (IF p.mode = "move" THEN "delete" ELSE "done")
                 /\ UNCHANGED << uniqueRows, duplicateRows, dataToTransfer, sourceRowNumbers >>
            ELSE IF p.destSheetName # DestSheetName
            THEN /\ result' = FailureResult(DestinationNotFound(p.destSheetName))
                 /\ pc' = "done"
                 /\ UNCHANGED << uniqueRows, duplicateRows, dataToTransfer, sourceRowNumbers >>
            ELSE /\ uniqueRows' = dup.uniqueRows
                 /\ duplicateRows' = dup.duplicateRows
                 /\ IF Len(dup.uniqueRows) = 0
                    THEN /\ result' = [success |-> TRUE, transferredRows |-> 0,
                                       duplicatesFound |-> Len(dup.duplicateRows),
                                       message |-> "All rows are duplicates. No data was transferred."]
                         /\ pc' = (IF p.mode = "move" THEN "delete" ELSE "done")
                         /\ UNCHANGED << dataToTransfer, sourceRowNumbers >>
                    ELSE /\ dataToTransfer' = PickByIndex(sd.rows, dup.uniqueRows)
                         /\ sourceRowNumbers' = PickByIndex(sd.sourceRowNumbers, dup.uniqueRows)
                         /\ result' = result
                         /\ pc' = "transfer"
  /\ i' = 0
  /\ transferredCount' = 0
  /\ UNCHANGED << src, dst, appendCalls, deleteRowsCalls, deleteCalls >>
  /\ UNCHANGED << tracker, runs >>

\* Steps 1 to 4: filter the source, read the destination, find duplicates,
\* prepare the rows to transfer.
Steps1To4(p) ==
  /\ params' = TransferParams(p)
  /\ src0' = src
  /\ dst0' = dst
  /\ LET sd == IF p.sourceSheetName # SourceSheetName
               THEN SheetNotFound(p.sourceSheetName)
               ELSE GetFilteredData(src, p.fromDate, p.toDate, p.status)
         existingData == IF GetLastRow(dst) > 1 THEN dst.rows ELSE << >>
         dup == FindDuplicates(sd.rows, existingData)
     IN  /\ sourceData' = sd
         /\ filteredIndex' = IF sd.error = "" /\ GetLastRow(src) >= 2
                             THEN FilteredIndex(src, p.fromDate, p.toDate, p.status)
                             ELSE << >>
         /\ IF sd.error # ""
            THEN /\ result' = FailureResult(sd.error)
                 /\ pc' = "done"
                 /\ UNCHANGED << uniqueRows, duplicateRows, dataToTransfer, sourceRowNumbers >>
            ELSE IF sd.rowCount = 0
            THEN /\ result' = [success |-> TRUE, transferredRows |-> 0, duplicatesFound |-> 0,
                               message |-> "No data found for the selected date range."]
                 /\ pc' = "done"
                 /\ UNCHANGED << uniqueRows, duplicateRows, dataToTransfer, sourceRowNumbers >>
            ELSE IF p.destSheetName # DestSheetName
            THEN /\ result' = FailureResult(DestinationNotFound(p.destSheetName))
                 /\ pc' = "done"
                 /\ UNCHANGED << uniqueRows, duplicateRows, dataToTransfer, sourceRowNumbers >>
            ELSE /\ uniqueRows' = dup.uniqueRows
                 /\ duplicateRows' = dup.duplicateRows
                 /\ IF Len(dup.uniqueRows) = 0
                    THEN /\ result' = [success |-> TRUE, transferredRows |-> 0,
                                       duplicatesFound |-> Len(dup.duplicateRows),
                                       message |-> "All rows are duplicates. No data was transferred."]
                         /\ pc' = "done"
                         /\ UNCHANGED << dataToTransfer, sourceRowNumbers >>
                    ELSE /\ dataToTransfer' = PickByIndex(sd.rows, dup.uniqueRows)
                         /\ sourceRowNumbers' = PickByIndex(sd.sourceRowNumbers, dup.uniqueRows)
                         /\ result' = result
                         /\ pc' = "transfer"
  /\ i' = 0
  /\ transferredCount' = 0
  /\ UNCHANGED << src, dst, appendCalls, deleteRowsCalls, deleteCalls >>
  /\ UNCHANGED << tracker, runs >>

\* executeDataTransfer is called
StartTransfer(p) ==
  /\ pc = "idle"
  /\ op' = "executeDataTransfer"
  /\ Steps1To4(p)

\* after a copy has returned, executeDataTransfer is called a second time
\* with the same transferParams
RunAgain ==
  /\ pc = "done"
  /\ op = "executeDataTransfer"
  /\ params.mode = "copy"
  /\ op' = "executeDataTransferAgain"
  /\ Steps1To4(params)

\* a chunk loop followed by a Step 6 whose guard leaves out the mode:
\* if (transferredCount > 0)
AppendChunkOkThenDelete ==
  /\ pc = "transfer"
  /\ LET chunk == ChunkAt(dataToTransfer, i)
         count == transferredCount + Len(chunk)
     IN  /\ dst' = AppendDataChunk(dst, chunk, sourceData.headers)
         /\ appendCalls' = Append(appendCalls, [chunk |-> chunk, ok |-> TRUE])
         /\ transferredCount' = count
         /\ i' = i + CHUNK_SIZE
         /\ IF i + CHUNK_SIZE < Len(dataToTransfer)
            THEN pc' = "transfer" /\ result' = result
            ELSE IF count > 0
            THEN pc' = "delete" /\ result' = result
            ELSE /\ pc' = "done"
                 /\ result' = SuccessResult(params.mode, count, Len(duplicateRows))
  /\ UNCHANGED << src, op, params, sourceData, uniqueRows, duplicateRows, dataToTransfer,
                  sourceRowNumbers, deleteRowsCalls, deleteCalls, src0, dst0,
                  filteredIndex >>
  /\ UNCHANGED << tracker, runs >>

\* One iteration of the chunk loop whose appendDataChunk call returns; after
\* the last chunk of a copy the function returns.
AppendChunkOk ==
  /\ pc = "transfer"
  /\ LET chunk == ChunkAt(dataToTransfer, i)
         count == transferredCount + Len(chunk)
     IN  /\ dst' = AppendDataChunk(dst, chunk, sourceData.headers)
         /\ appendCalls' = Append(appendCalls, [chunk |-> chunk, ok |-> TRUE])
         /\ transferredCount' = count
         /\ i' = i + CHUNK_SIZE
         /\ IF i + CHUNK_SIZE < Len(dataToTransfer)
            THEN pc' = "transfer" /\ result' = result
            ELSE IF params.mode = "move" /\ count > 0
            THEN pc' = "delete" /\ result' = result
            ELSE /\ pc' = "done"
                 /\ result' = SuccessResult(params.mode, count, Len(duplicateRows))
  /\ UNCHANGED << src, op, params, sourceData, uniqueRows, duplicateRows, dataToTransfer,
                  sourceRowNumbers, deleteRowsCalls, deleteCalls, src0, dst0,
                  filteredIndex >>
  /\ UNCHANGED << tracker, runs >>

\* a chunk loop that logs the error of appendDataChunk and falls through to
\* Step 6 instead of rethrowing
AppendChunkFailSwallowed ==
  /\ pc = "transfer"
  /\ appendCalls' = Append(appendCalls, [chunk |-> ChunkAt(dataToTransfer, i), ok |-> FALSE])
  /\ IF params.mode = "move" /\ transferredCount > 0
     THEN pc' = "delete" /\ result' = result
     ELSE /\ pc' = "done"
          /\ result' = SuccessResult(params.mode, transferredCount, Len(duplicateRows))
  /\ UNCHANGED << src, dst, op, params, locals, deleteRowsCalls, deleteCalls, src0, dst0 >>
  /\ UNCHANGED << tracker, runs >>

\* One iteration of the chunk loop whose appendDataChunk call throws: the
\* error is rethrown and the catch block of executeDataTransfer returns.
AppendChunkFail ==
  /\ pc = "transfer"
  /\ appendCalls' = Append(appendCalls, [chunk |-> ChunkAt(dataToTransfer, i), ok |-> FALSE])
  /\ result' = FailureResult("Failed to transfer chunk " \o ToString(i + 1)
                             \o ": Failed to append data chunk: Service error")
  /\ pc' = "done"
  /\ UNCHANGED << src, dst, op, params, locals, deleteRowsCalls, deleteCalls, src0, dst0 >>
  /\ UNCHANGED << tracker, runs >>

\* a Step 6 without its try/catch: the error of deleteRows reaches the outer
\* catch block
DeleteSourceRowsFatal(n) ==
  /\ pc = "delete"
  /\ LET rowsToDelete == RowsToDelete(sourceRowNumbers, transferredCount)
         d == DeleteRowsUpTo(src, rowsToDelete, n)
     IN  /\ n <= Len(rowsToDelete)
         /\ src' = d.sheet
         /\ deleteRowsCalls' = Append(deleteRowsCalls,
                                      [rowNums |-> rowsToDelete, ok |-> n = Len(rowsToDelete)])
         /\ deleteCalls' = deleteCalls \o d.calls
         /\ result' = IF n = Len(rowsToDelete)
                      THEN SuccessResult(params.mode, transferredCount, Len(duplicateRows))
                      ELSE FailureResult("Failed to delete rows: Service error")
  /\ pc' = "done"
  /\ UNCHANGED << dst, op, params, locals, appendCalls, src0, dst0 >>
  /\ UNCHANGED << tracker, runs >>

\* Step 6 in move mode: deleteRows runs n iterations of its loop; with
\* n = Len(rowsToDelete) it returns, with fewer it throws, and either way
\* executeDataTransfer returns success.
DeleteSourceRows(n) ==
  /\ pc = "delete"
  /\ LET rowsToDelete == RowsToDelete(sourceRowNumbers, transferredCount)
         d == DeleteRowsUpTo(src, rowsToDelete, n)
     IN  /\ n <= Len(rowsToDelete)
         /\ src' = d.sheet
         /\ deleteRowsCalls' = Append(deleteRowsCalls,
                                      [rowNums |-> rowsToDelete, ok |-> n = Len(rowsToDelete)])
         /\ deleteCalls' = deleteCalls \o d.calls
  /\ result' = SuccessResult(params.mode, transferredCount, Len(duplicateRows))
  /\ pc' = "done"
  /\ UNCHANGED << dst, op, params, locals, appendCalls, src0, dst0 >>
  /\ UNCHANGED << tracker, runs >>

DeleteSourceRowsOk == DeleteSourceRows(Len(RowsToDelete(sourceRowNumbers, transferredCount)))

DeleteSourceRowsFail == \E n \in 0 .. MaxFailPoint :
  /\ n < Len(RowsToDelete(sourceRowNumbers, transferredCount))
  /\ DeleteSourceRows(n)

\* ------------------------------------------------------------------------
\* deleteRows called on the source sheet with a list of the caller's choice
\* ------------------------------------------------------------------------

RowNumLists == UNION { [1 .. n -> -1 .. MaxRowNum] : n \in 1 .. MaxList }

DeleteRowsCall(rowNums) ==
  /\ pc = "idle"
  /\ op' = "deleteRows"
  /\ LET d == DeleteRowsUpTo(src, rowNums, Len(rowNums))
     IN  /\ src' = d.sheet
         /\ deleteCalls' = deleteCalls \o d.calls
  /\ deleteRowsCalls' = Append(deleteRowsCalls, [rowNums |-> rowNums, ok |-> TRUE])
  /\ pc' = "done"
  /\ UNCHANGED << dst, params, locals, result, appendCalls, src0, dst0 >>
  /\ UNCHANGED << tracker, runs >>

\* ------------------------------------------------------------------------
\* validateHeaders called on a source and a destination header row
\* ------------------------------------------------------------------------

\* another spelling of a canonical header, read from a sheet
OtherSpelling(h) ==
  CASE h = "DATE"          -> "date"
    [] h = "ORDER ID"      -> " Order Id "
    [] h = "TRACKING ID"   -> "Tracking Id"
    [] h = "CUSTOMER NAME" -> "Customer Name"
    [] h = "PHONE"         -> "Phone"
    [] h = "CITY"          -> "City"
    [] OTHER               -> h

\* the header rows made of the canonical headers in order, where each of the
\* first MaxVaried is absent, canonical or spelled otherwise
HeaderRows ==
  { LET Keep(k) == k > MaxVaried \/ pick[k] # "absent"
        kept == SelectSeq([k \in 1 .. Len(REQUIRED_HEADERS) |-> k], Keep)
    IN  ArrayOf([j \in 1 .. Len(kept) |->
          IF kept[j] <= MaxVaried /\ pick[kept[j]] = "other"
          THEN OtherSpelling(REQUIRED_HEADERS[kept[j]])
          ELSE REQUIRED_HEADERS[kept[j]]]) :
    pick \in [1 .. MaxVaried -> {"absent", "canonical", "other"}] }

\* columns a destination sheet has after the canonical ones
TrailingHeaders == { << >>, << "Notes" >>, << " NOTES " >>, << "notes", "Notes" >> }

SourceHeaderRows ==
  { REQUIRED_HEADERS,
    ArrayOf([k \in 1 .. Len(REQUIRED_HEADERS) |-> OtherSpelling(REQUIRED_HEADERS[k])]),
    Slice(REQUIRED_HEADERS, 1, Len(REQUIRED_HEADERS)) }

ValidateHeadersCall ==
  /\ pc = "idle"
  /\ op' = "validateHeaders"
  /\ result' = ValidateHeaders(src.headers, dst.headers)
  /\ pc' = "done"
  /\ UNCHANGED << src, dst, params, locals, appendCalls, deleteRowsCalls, deleteCalls,
                  src0, dst0 >>
  /\ UNCHANGED << tracker, runs >>

\* ------------------------------------------------------------------------
\* GoogleAppsScriptService (services/google-apps-script.ts): the simulated
\* service behind the routes
\* ------------------------------------------------------------------------

\* const chunkSize = 50
chunkSize == 50
\* Math.floor(Math.random() * 200) + 50 lies in 50 .. 249
MinRowCount == 50
MaxRowCount == 249
\* the values of rowCount that are followed up
RowCounts == { MinRowCount, MaxRowCount }

Digits(n) == IF n < 10 THEN 1 ELSE IF n < 100 THEN 2 ELSE IF n < 1000 THEN 3 ELSE 4

Zeros(k) == IF k <= 0 THEN "" ELSE IF k = 1 THEN "0" ELSE IF k = 2 THEN "00" ELSE "000"

\* String(n).padStart(width, '0')
PadStart(n, width) == Zeros(width - Digits(n)) \o ToString(n)

\* rows.push([...]) for loop index k (0-based).  The amount and the status cell
\* are random in the service; no route reads them, and one sample of each
\* stands for them.
SampleRow(k) ==
  << "ORD-" \o PadStart(k + 1, 3),
     "TRK-" \o ToString(12345 + k),
     "2024-01-" \o PadStart((k % 28) + 1, 2),
     "Customer " \o ToString(k + 1),
     "$50.00",
     "Delivered" >>

\* data.rows of getFilteredData: at most 100 rows
SampleRows(rowCount) ==
  ArrayOf([k \in 1 .. (IF rowCount < 100 THEN rowCount ELSE 100) |-> SampleRow(k - 1)])

\* getExistingKeys
EXISTING_KEYS == << "ORD-001_TRK-12345", "ORD-015_TRK-12359", "ORD-032_TRK-12376" >>

\* `transfer_${Date.now()}`
TransferIdAt(t) == "transfer_" \o ToString(t)

\* chunks.length after  for (i = 0; i < data.length; i += chunkSize) chunks.push(...)
RECURSIVE ChunkCountFrom(_, _)
ChunkCountFrom(k, dataLength) ==
  IF k < dataLength THEN 1 + ChunkCountFrom(k + chunkSize, dataLength) ELSE 0

ChunkCount(dataLength) == ChunkCountFrom(0, dataLength)

\* `Successfully ${mode === 'move' ? 'moved' : 'copied'} ${data.length} rows.`
TransferMessage(mode, dataLength) ==
  "Successfully " \o (IF mode = "move" THEN "moved" ELSE "copied") \o " "
    \o ToString(dataLength) \o " rows."

\* ------------------------------------------------------------------------
\* The transfer routes: POST /api/spreadsheets/transfer and
\* GET /api/transfers/:transferId/progress
\* ------------------------------------------------------------------------

\* request bodies: mode and duplicateHandling as sent ("undefined": not sent,
\* "archive": not a value of the enum); the other fields are strings
Bodies == [mode : {"copy", "move", "undefined", "archive"},
           duplicateHandling : {"skip", "add_all", "undefined"}]

\* transferDataSchema.parse: the defaults, or a ZodError
ZodParse(body) ==
  IF body.mode \notin {"copy", "move", "undefined"}
       \/ body.duplicateHandling \notin {"skip", "update", "add_all", "undefined"}
  THEN [ok |-> FALSE, mode |-> "", duplicateHandling |-> ""]
  ELSE [ok |-> TRUE,
        mode |-> IF body.mode = "undefined" THEN "move" ELSE body.mode,
        duplicateHandling |-> IF body.duplicateHandling = "undefined" THEN "skip"
                              ELSE body.duplicateHandling]

\* const key = `${row[0]}_${row[1]}`; existingKeys.includes(key)
IsDuplicateRow(row) == ArrayIncludes(EXISTING_KEYS, row[1] \o "_" \o row[2])

\* rowsToTransfer and duplicateCount of the route
RowsToTransfer(rows, duplicateHandling) ==
  LET Kept(row) == ~IsDuplicateRow(row)
  IN  IF duplicateHandling = "skip" THEN SelectSeq(rows, Kept) ELSE rows

DuplicateCount(rows, duplicateHandling) ==
  IF duplicateHandling = "skip" THEN Len(SelectSeq(rows, IsDuplicateRow)) ELSE 0

\* the record the route stores once executeTransfer has returned
CompletedRecord(req) ==
  [status |-> "completed", progress |-> 100,
   message |-> TransferMessage(req.mode, req.dataLength),
   stats |-> [totalRows |-> req.rowCount, processedRows |-> req.dataLength,
              duplicates |-> req.duplicateCount, errors |-> 0]]

Awaiting(req) == req.pc \in {"getFilteredData", "getExistingKeys", "appendChunk", "deleteRows"}

\* the clock moves on while some handler waits for a timer: every setTimeout
\* delay of the service is positive, so a timer fires at a later clock value
\* than it was set at
Tick ==
  /\ op = "transferRoutes"
  /\ now < MaxClock
  /\ \E r \in 1 .. MaxRequests : Awaiting(reqs[r])
  /\ now' = now + 1
  /\ reqs' = [r \in 1 .. MaxRequests |->
               IF Awaiting(reqs[r]) THEN [reqs[r] EXCEPT !.timerFired = TRUE]
               ELSE reqs[r]]
  /\ UNCHANGED << transferProgress, transfers, lookup >>
  /\ UNCHANGED << op, executor >>

\* a request arrives: ZodError -> 400, else the handler awaits getFilteredData
Post(r, body) ==
  /\ op \in {"none", "transferRoutes"}
  /\ reqs[r].pc = "none"
  /\ IF r = 1 THEN TRUE ELSE reqs[r - 1].pc # "none"
  /\ op' = "transferRoutes"
  /\ LET transferData == ZodParse(body)
     IN  reqs' = [reqs EXCEPT ![r] =
           IF transferData.ok
           THEN [@ EXCEPT !.pc = "getFilteredData", !.mode = transferData.mode,
                          !.duplicateHandling = transferData.duplicateHandling,
                          !.timerFired = FALSE]
           ELSE [@ EXCEPT !.pc = "responded",
                          !.response = [code |-> 400, message |-> "Invalid request data",
                                        transferId |-> ""]]]
  /\ UNCHANGED << transferProgress, now, transfers, lookup >>
  /\ UNCHANGED executor

\* getFilteredData returns; the handler awaits getExistingKeys
GotFilteredData(r) ==
  /\ op = "transferRoutes"
  /\ reqs[r].pc = "getFilteredData"
  /\ reqs[r].timerFired
  /\ \E rowCount \in RowCounts :
       reqs' = [reqs EXCEPT ![r] = [@ EXCEPT !.pc = "getExistingKeys",
                                             !.rowCount = rowCount, !.timerFired = FALSE]]
  /\ UNCHANGED << transferProgress, now, transfers, lookup >>
  /\ UNCHANGED << op, executor >>

\* executeTransfer has returned: transferProgress.set(...) and res.json(...)
ReturnTransfer(r, req) ==
  /\ transferProgress' = MapSet(transferProgress, req.transferId, CompletedRecord(req))
  /\ reqs' = [reqs EXCEPT ![r] =
       [req EXCEPT !.pc = "responded", !.i = 0, !.timerFired = FALSE,
                   !.response = [code |-> 200,
                                 message |-> TransferMessage(req.mode, req.dataLength),
                                 transferId |-> req.transferId]]]

\* executeTransfer from the head of its chunk loop: the next appendChunk, then
\* deleteRows in move mode, then its return
ContinueTransfer(r, req) ==
  IF req.i < ChunkCount(req.dataLength)
  THEN /\ reqs' = [reqs EXCEPT ![r] = [req EXCEPT !.pc = "appendChunk", !.timerFired = FALSE]]
       /\ UNCHANGED transferProgress
  ELSE IF req.mode = "move"
  THEN /\ reqs' = [reqs EXCEPT ![r] = [req EXCEPT !.pc = "deleteRows", !.timerFired = FALSE]]
       /\ UNCHANGED transferProgress
  ELSE ReturnTransfer(r, req)

\* getExistingKeys returns; the handler filters the duplicates and calls
\* executeTransfer, which reads the clock for its transferId
GotExistingKeys(r) ==
  /\ op = "transferRoutes"
  /\ reqs[r].pc = "getExistingKeys"
  /\ reqs[r].timerFired
  /\ LET rows == SampleRows(reqs[r].rowCount)
         rowsToTransfer == RowsToTransfer(rows, reqs[r].duplicateHandling)
     IN  ContinueTransfer(r, [reqs[r] EXCEPT
                                !.dataLength = Len(rowsToTransfer),
                                !.duplicateCount =
                                   DuplicateCount(rows, reqs[r].duplicateHandling),
                                !.transferId = TransferIdAt(now),
                                !.i = 0])
  /\ UNCHANGED << now, transfers, lookup >>
  /\ UNCHANGED << op, executor >>

\* appendChunk returns: i++
AppendChunkDone(r) ==
  /\ op = "transferRoutes"
  /\ reqs[r].pc = "appendChunk"
  /\ reqs[r].timerFired
  /\ ContinueTransfer(r, [reqs[r] EXCEPT !.i = @ + 1])
  /\ UNCHANGED << now, transfers, lookup >>
  /\ UNCHANGED << op, executor >>

\* deleteRows returns
DeleteRowsDone(r) ==
  /\ op = "transferRoutes"
  /\ reqs[r].pc = "deleteRows"
  /\ reqs[r].timerFired
  /\ ReturnTransfer(r, reqs[r])
  /\ UNCHANGED << now, transfers, lookup >>
  /\ UNCHANGED << op, executor >>

\* a progress route that answers for an unknown identifier as for a record
\* that is still pending
ProgressResponsePendingForUnknown(transferId) ==
  IF ~MapHas(transferProgress, transferId)
  THEN [op |-> "progress", id |-> transferId, code |-> 200,
        body |-> [status |-> "pending", progress |-> 0, message |-> "",
                  stats |-> [totalRows |-> 0, processedRows |-> 0,
                             duplicates |-> 0, errors |-> 0]]]
  ELSE [op |-> "progress", id |-> transferId, code |-> 200,
        body |-> MapGet(transferProgress, transferId)]

\* what GET /api/transfers/:transferId/progress answers
ProgressResponse(transferId) ==
  IF ~MapHas(transferProgress, transferId)
  THEN [op |-> "progress", id |-> transferId, code |-> 404,
        body |-> [message |-> "Transfer not found"]]
  ELSE [op |-> "progress", id |-> transferId, code |-> 200,
        body |-> MapGet(transferProgress, transferId)]

\* the identifiers executeTransfer can make
TransferIds == { TransferIdAt(t) : t \in 0 .. MaxClock }

\* the identifiers a client asks about: those executeTransfer has made so far,
\* and one it never makes
PolledIds ==
  { TransferIdAt(0) } \cup
  { reqs[r].transferId : r \in { q \in 1 .. MaxRequests : reqs[q].transferId # "" } }

\* a progress route that drops the record it has just read
PollProgressConsuming(transferId) ==
  /\ op = "transferRoutes"
  /\ transferId \in PolledIds
  /\ lookup' = ProgressResponse(transferId)
  /\ transferProgress' =
       [id \in DOMAIN transferProgress \ {transferId} |-> transferProgress[id]]
  /\ UNCHANGED << now, reqs, transfers >>
  /\ UNCHANGED << op, executor >>

PollProgress(transferId) ==
  /\ op = "transferRoutes"
  /\ transferId \in PolledIds
  /\ lookup' = ProgressResponse(transferId)
  /\ UNCHANGED << transferProgress, now, reqs, transfers >>
  /\ UNCHANGED << op, executor >>

\* ------------------------------------------------------------------------
\* MemStorage (storage.ts): the transfers map and its four methods.  Of a
\* Transfer the fields the methods set after creation are kept, with id and
\* totalRows.
\* ------------------------------------------------------------------------

Null == "null"
Undefined == [type |-> "undefined"]

\* randomUUID(): an identifier no earlier call returned
RandomUUID(map) == "uuid-" \o ToString(Cardinality(DOMAIN map) + 1)

\* the identifiers callers pass: those createTransfer can return and one it
\* never returns
StorageIds == { "uuid-" \o ToString(n) : n \in 1 .. MaxTransfers + 1 }

\* arguments of createTransfer
InsertTransfers == [status : {"pending"}, totalRows : {10, 20}]

\* arguments (progress, processedRows) of updateTransferProgress, and the
\* optional duplicateRows after them: << >> when it is left out
ProgressUpdates == { << 50, 5, << >> >>, << 150, 21, << 1 >> >> }

\* arguments (status, errorMessage) of updateTransferStatus
StatusUpdates == { << "pending", "undefined" >>, << "processing", "undefined" >>,
                   << "completed", "" >>, << "failed", "Append failed" >> }

CreateTransfer(insertTransfer) ==
  /\ op \in {"none", "MemStorage"}
  /\ Cardinality(DOMAIN transfers) < MaxTransfers
  /\ op' = "MemStorage"
  /\ LET id == RandomUUID(transfers)
     IN  transfers' = MapSet(transfers, id,
           [id |-> id, status |-> insertTransfer.status,
            totalRows |-> insertTransfer.totalRows,
            progress |-> 0, processedRows |-> 0, duplicateRows |-> 0,
            errorMessage |-> Null])
  /\ UNCHANGED << transferProgress, now, reqs, lookup >>
  /\ UNCHANGED executor

UpdateTransferProgress(id, progress, processedRows, duplicateRowsArg) ==
  /\ op \in {"none", "MemStorage"}
  /\ op' = "MemStorage"
  /\ transfers' =
       IF MapHas(transfers, id)
       THEN [transfers EXCEPT ![id] =
              [@ EXCEPT !.progress = progress,
                        !.processedRows = processedRows,
                        !.duplicateRows =
                           IF duplicateRowsArg = << >> THEN 0
                           ELSE duplicateRowsArg[1]]]
       ELSE transfers
  /\ UNCHANGED << transferProgress, now, reqs, lookup >>
  /\ UNCHANGED executor

UpdateTransferStatus(id, status, errorMessage) ==
  /\ op \in {"none", "MemStorage"}
  /\ op' = "MemStorage"
  /\ transfers' =
       IF MapHas(transfers, id)
       THEN [transfers EXCEPT ![id] =
              [@ EXCEPT !.status = status,
                        !.errorMessage =
                           IF errorMessage \in {"undefined", ""} THEN Null
                           ELSE errorMessage]]
       ELSE transfers
  /\ UNCHANGED << transferProgress, now, reqs, lookup >>
  /\ UNCHANGED executor

\* what getTransfer returns
GetTransferResult(id) ==
  [op |-> "getTransfer", id |-> id, code |-> 0,
   body |-> IF MapHas(transfers, id) THEN MapGet(transfers, id) ELSE Undefined]

GetTransfer(id) ==
  /\ op \in {"none", "MemStorage"}
  /\ op' = "MemStorage"
  /\ lookup' = GetTransferResult(id)
  /\ UNCHANGED << transferProgress, now, reqs, transfers >>
  /\ UNCHANGED executor

\* ------------------------------------------------------------------------
\* appendDataChunk called on a destination sheet with a chunk and a header
\* row of the caller's choice; appendChunk of code.gs on the same chunk
\* ------------------------------------------------------------------------

\* sheet.getLastColumn(): the last column that holds a value
GetLastColumn(sheet) == Max(Len(sheet.headers), MaxRowLength(sheet.rows))

\* code.gs appendChunk: numCols = sheet.getLastColumn() || chunk[0].length;
\* each row padded with '' and sliced to numCols
CodeGsAppendChunk(sheet, chunk) ==
  LET numCols == IF GetLastColumn(sheet) # 0 THEN GetLastColumn(sheet)
                 ELSE Len(chunk[1])
  IN  [sheet EXCEPT !.rows =
         @ \o ArrayOf([k \in 1 .. Len(chunk) |-> NormalizeRow(chunk[k], numCols)])]

\* header rows of a source sheet: narrower than, as wide as, and wider than
\* the destination's
AppendSourceHeaders ==
  { << "DATE", "ORDER ID" >>, DstHeaders, DstHeaders \o << "NOTES" >> }

\* header rows of a destination sheet
AppendDestHeaders == { DstHeaders, << "DATE", "ORDER ID" >> }

\* a row of n cells
CellsRow(n) == ArrayOf([c \in 1 .. n |-> "v" \o ToString(c)])

\* chunks of 1 .. MaxChunkRows rows of 0 .. MaxCells cells
Chunks ==
  UNION { [1 .. n -> { CellsRow(k) : k \in 0 .. MaxCells }] : n \in 1 .. MaxChunkRows }

AppendDataChunkCall(chunk) ==
  /\ pc = "idle"
  /\ op' = "appendDataChunk"
  /\ dst' = AppendDataChunk(dst, chunk, src.headers)
  /\ appendCalls' = Append(appendCalls, [chunk |-> chunk, ok |-> TRUE])
  /\ pc' = "done"
  /\ UNCHANGED << src, params, locals, result, deleteRowsCalls, deleteCalls, src0, dst0 >>
  /\ UNCHANGED << tracker, runs >>

\* ------------------------------------------------------------------------
\* Two executeDataTransfer calls in copy mode running at the same time on the
\* same sheets (GAS_code.gs takes no lock). Each call to the spreadsheet
\* service is a step of its own.
\* ------------------------------------------------------------------------

\* sheet.getRange(startRow, 1, n, numCols).setValues(normalizedChunk): the
\* cells of rows startRow .. startRow + n - 1 are replaced
SetValues(sheet, startRow, chunk, headers) ==
  LET normalizedChunk == NormalizeChunk(chunk, headers)
      above == startRow - 2
  IN  [sheet EXCEPT !.rows = SubSeq(@, 1, above) \o normalizedChunk
                             \o SubSeq(@, above + Len(normalizedChunk) + 1, Len(@))]

Running(t) == runs[t].pc \notin {"none", "done"}

\* Steps 1 to 4 of call t: it reads the source and the destination as they
\* are now
ConcurrentStart(t, p) ==
  /\ pc = "idle"
  /\ op \in {"none", "concurrentTransfers"}
  /\ runs[t].pc = "none"
  /\ op' = "concurrentTransfers"
  /\ LET sd == GetFilteredData(src, p.fromDate, p.toDate, p.status)
         existingData == IF GetLastRow(dst) > 1 THEN dst.rows ELSE << >>
         dup == FindDuplicates(sd.rows, existingData)
         nothing == sd.error # "" \/ sd.rowCount = 0 \/ Len(dup.uniqueRows) = 0
         overlap == \E u \in Transfers : u # t /\ Running(u)
     IN  runs' = [u \in Transfers |->
                    IF u = t
                    THEN [pc |-> IF nothing THEN "done" ELSE "getLastRow",
                          params |-> TransferParams(p),
                          dataToTransfer |-> IF nothing THEN << >>
                                             ELSE PickByIndex(sd.rows, dup.uniqueRows),
                          i |-> 0, startRow |-> 0, transferredCount |-> 0,
                          duplicatesFound |-> IF sd.error # "" \/ sd.rowCount = 0 THEN 0
                                              ELSE Len(dup.duplicateRows),
                          overlapped |-> overlap]
                    ELSE [runs[u] EXCEPT !.overlapped = @ \/ Running(u)]]
  /\ UNCHANGED << src, dst, pc, params, locals, result, appendCalls, deleteRowsCalls,
                  deleteCalls, src0, dst0 >>
  /\ UNCHANGED tracker

\* appendDataChunk of call t: const lastRow = sheet.getLastRow();
\* const startRow = lastRow + 1
ConcurrentGetLastRow(t) ==
  /\ op = "concurrentTransfers"
  /\ runs[t].pc = "getLastRow"
  /\ runs' = [runs EXCEPT ![t].startRow = GetLastRow(dst) + 1, ![t].pc = "setValues"]
  /\ UNCHANGED << src, dst, pc, op, params, locals, result, appendCalls, deleteRowsCalls,
                  deleteCalls, src0, dst0 >>
  /\ UNCHANGED tracker

\* appendDataChunk of call t: setValues at the startRow it computed; then the
\* chunk loop goes on or the call returns
ConcurrentSetValues(t) ==
  /\ op = "concurrentTransfers"
  /\ runs[t].pc = "setValues"
  /\ LET chunk == ChunkAt(runs[t].dataToTransfer, runs[t].i)
     IN  /\ dst' = SetValues(dst, runs[t].startRow, chunk, src.headers)
         /\ appendCalls' = Append(appendCalls, [chunk |-> chunk, ok |-> TRUE])
         /\ runs' = [runs EXCEPT
                       ![t].transferredCount = @ + Len(chunk),
                       ![t].i = @ + CHUNK_SIZE,
                       ![t].pc = IF runs[t].i + CHUNK_SIZE < Len(runs[t].dataToTransfer)
                                 THEN "getLastRow" ELSE "done"]
  /\ UNCHANGED << src, pc, op, params, locals, result, deleteRowsCalls, deleteCalls,
                  src0, dst0 >>
  /\ UNCHANGED tracker

\* ------------------------------------------------------------------------
\* Specifications
\* ------------------------------------------------------------------------

\* one executeDataTransfer call on the sheets chosen by Init
Next ==
  \/ \E sn \in SourceSheetNames, dn \in DestSheetNames,
        f \in FromDates, t \in ToDates, s \in StatusFilters, m \in Modes :
       StartTransfer([sourceSheetName |-> sn, destSheetName |-> dn,
                      fromDate |-> f, toDate |-> t, status |-> s, mode |-> m])
  \/ RunAgain
  \/ AppendChunkOk
  \/ AppendChunkFail
  \/ DeleteSourceRowsOk
  \/ DeleteSourceRowsFail

Spec == Init /\ [][Next]_vars

\* two concurrent calls on a source sheet of up to MaxArb rows
InitConcurrent == InitSmall

NextConcurrent ==
  \/ \E t \in Transfers : \E f \in FromDates, to \in ToDates, s \in StatusFilters :
       ConcurrentStart(t, [sourceSheetName |-> SourceSheetName, destSheetName |-> DestSheetName,
                           fromDate |-> f, toDate |-> to, status |-> s, mode |-> "copy"])
  \/ \E t \in Transfers : ConcurrentGetLastRow(t)
  \/ \E t \in Transfers : ConcurrentSetValues(t)

SpecConcurrent == InitConcurrent /\ [][NextConcurrent]_vars

\* one deleteRows call, with any list of row numbers, on a sheet of up to
\* MaxSheetRows distinct data rows
InitDeleteRows ==
  \E n \in 0 .. MaxSheetRows :
    InitWith([headers |-> DstHeaders, rows |-> BulkRows(DstHeaders, n)],
             [headers |-> DstHeaders, rows |-> << >>])

NextDeleteRows == \E rowNums \in RowNumLists : DeleteRowsCall(rowNums)

SpecDeleteRows == InitDeleteRows /\ [][NextDeleteRows]_vars

\* one validateHeaders call on two sheets that have a header row
InitValidateHeaders ==
  \E sourceHeaders \in SourceHeaderRows, destHeaders \in HeaderRows,
     trailing \in TrailingHeaders :
    InitWith([headers |-> sourceHeaders, rows |-> << >>],
             [headers |-> destHeaders \o trailing, rows |-> << >>])

NextValidateHeaders == ValidateHeadersCall

SpecValidateHeaders == InitValidateHeaders /\ [][NextValidateHeaders]_vars

\* the progress tracker: transfer requests and progress polls on the routes,
\* or calls of the MemStorage transfer methods (the two share no state, and a
\* run exercises one of them)
InitTracker ==
  InitWith([headers |-> DstHeaders, rows |-> << >>],
           [headers |-> DstHeaders, rows |-> << >>])

NextTracker ==
  \/ Tick
  \/ \E r \in 1 .. MaxRequests, body \in Bodies : Post(r, body)
  \/ \E r \in 1 .. MaxRequests : GotFilteredData(r)
  \/ \E r \in 1 .. MaxRequests : GotExistingKeys(r)
  \/ \E r \in 1 .. MaxRequests : AppendChunkDone(r)
  \/ \E r \in 1 .. MaxRequests : DeleteRowsDone(r)
  \/ \E transferId \in TransferIds : PollProgress(transferId)
  \/ \E insertTransfer \in InsertTransfers : CreateTransfer(insertTransfer)
  \/ \E id \in StorageIds, u \in ProgressUpdates : UpdateTransferProgress(id, u[1], u[2], u[3])
  \/ \E id \in StorageIds, u \in StatusUpdates : UpdateTransferStatus(id, u[1], u[2])
  \/ \E id \in StorageIds : GetTransfer(id)

SpecTracker == InitTracker /\ [][NextTracker]_vars

\* one appendDataChunk call on a destination that is empty or holds one row
InitAppendChunk ==
  \E sourceHeaders \in AppendSourceHeaders, destHeaders \in AppendDestHeaders,
     n \in 0 .. 1 :
    InitWith([headers |-> sourceHeaders, rows |-> << >>],
             [headers |-> destHeaders, rows |-> BulkRows(destHeaders, n)])

NextAppendChunk == \E chunk \in Chunks : AppendDataChunkCall(chunk)

SpecAppendChunk == InitAppendChunk /\ [][NextAppendChunk]_vars

\* ------------------------------------------------------------------------
\* Properties
\* ------------------------------------------------------------------------

InTransfer == op = "executeDataTransfer"

AppendFailed == \E k \in 1 .. Len(appendCalls) : ~appendCalls[k].ok

\* the rows the destination has gained since the call started
RowsAppended == Len(dst.rows) - Len(dst0.rows)

\* C1: in move mode, once an appendDataChunk call has failed the transfer is
\* over and reported as failed and no deletion is ever issued on the source;
\* a deletion is issued only after every chunk of the rows to transfer has
\* been appended.
C1_NoDeleteUnlessAllChunksAppended ==
  InTransfer =>
    /\ AppendFailed =>
         /\ pc = "done"
         /\ ~result.success
         /\ deleteRowsCalls = << >>
         /\ deleteCalls = << >>
         /\ src = src0
    /\ (deleteRowsCalls # << >> \/ deleteCalls # << >> \/ pc = "delete") =>
         /\ params.mode = "move"
         /\ \A k \in 1 .. Len(appendCalls) : appendCalls[k].ok
         /\ RowsAppended = Len(dataToTransfer)

\* C1 witness: a move whose second chunk failed after the first was appended
C1_Witness ==
  /\ InTransfer /\ pc = "done" /\ params.mode = "move"
  /\ Len(appendCalls) = 2
  /\ appendCalls[1].ok /\ ~appendCalls[2].ok
  /\ RowsAppended = CHUNK_SIZE

\* the 0-based positions, in the source sheet's data rows, of the rows that
\* were transferred
TransferredPositions ==
  { filteredIndex[uniqueRows[k] + 1] : k \in 1 .. transferredCount }

\* C2: after a successful move whose deletion succeeded, the rows gone from
\* the source sheet are exactly the rows that were appended to the
\* destination: what is left is the original sheet without them, in order.
C2_MoveRemovesExactlyTheTransferredRows ==
  ( /\ InTransfer /\ pc = "done" /\ params.mode = "move"
    /\ result.success /\ result.transferredRows > 0
    /\ \A k \in 1 .. Len(deleteRowsCalls) : deleteRowsCalls[k].ok )
  => LET Stays(k) == (k - 1) \notin TransferredPositions
         kept == SelectSeq([k \in 1 .. Len(src0.rows) |-> k], Stays)
     IN  src.rows = [k \in 1 .. Len(kept) |-> src0.rows[kept[k]]]

\* C3: sourceRowNumbers[i] is the sheet row the i-th filtered row came from:
\* its 0-based index in the unfiltered data rows plus 2.
C3_RowNumbersPointAtOriginalRows ==
  (InTransfer /\ sourceData.error = "") =>
    /\ Len(sourceData.sourceRowNumbers) = Len(sourceData.rows)
    /\ \A k \in 1 .. Len(sourceData.rows) :
         sourceData.sourceRowNumbers[k] = filteredIndex[k] + 2

NoRepeats(seq) == \A a, b \in 1 .. Len(seq) : a # b => seq[a] # seq[b]

C5_ChunkFailureAborts ==
  InTransfer =>
    \A k \in 1 .. Len(appendCalls) :
      ~appendCalls[k].ok =>
        /\ k = Len(appendCalls)
        /\ pc = "done"
        /\ result.success = FALSE
        /\ result.transferredRows = 0
        /\ result.duplicatesFound = 0
        /\ RowsAppended = (k - 1) * CHUNK_SIZE
        /\ \A j \in 1 .. k - 1 : appendCalls[j].ok

\* C5 witness: the second chunk failed, after one chunk had been appended and
\* a duplicate had been found
C5_Witness ==
  /\ InTransfer /\ pc = "done"
  /\ Len(appendCalls) = 2 /\ ~appendCalls[2].ok
  /\ transferredCount = CHUNK_SIZE
  /\ Len(duplicateRows) > 0

\* C6: in move mode, when every chunk was appended and the deletion from the
\* source then fails, the transfer is still reported success = true, with
\* transferredRows equal to the number of rows appended.
C6_DeleteFailureIsNotFatal ==
  (InTransfer /\ \E k \in 1 .. Len(deleteRowsCalls) : ~deleteRowsCalls[k].ok) =>
    /\ pc = "done"
    /\ params.mode = "move"
    /\ result.success = TRUE
    /\ result.transferredRows = RowsAppended
    /\ RowsAppended = Len(dataToTransfer)
    /\ \A k \in 1 .. Len(appendCalls) : appendCalls[k].ok

\* C6 witness: deleteRows threw after one of its deletions, two chunks having
\* been appended
C6_Witness ==
  /\ InTransfer /\ pc = "done"
  /\ Len(deleteRowsCalls) = 1 /\ ~deleteRowsCalls[1].ok
  /\ Len(deleteCalls) = 1
  /\ Len(appendCalls) = 2
  /\ result.success

CeilDiv(n, d) == (n + d - 1) \div d

Min(a, b) == IF a <= b THEN a ELSE b

\* C7: n accepted rows are appended in ceil(n / 100) calls; every call but
\* the last carries exactly 100 rows, the last between 1 and 100, and call k
\* carries rows (k - 1) * 100 + 1 .. min(k * 100, n) of the accepted rows,
\* so the chunks in order are the accepted rows in order, none missing,
\* repeated or moved; the chunks array of code.gs is the same split.
C7_ChunksPartitionAcceptedRows ==
  InTransfer =>
    LET n == Len(dataToTransfer)
        calls == Len(appendCalls)
    IN  /\ pc # "idle" /\ sourceData.error = "" =>
             /\ n = Len(uniqueRows)
             /\ \A k \in 1 .. n : dataToTransfer[k] = sourceData.rows[uniqueRows[k] + 1]
        /\ calls <= CeilDiv(n, CHUNK_SIZE)
        /\ \A k \in 1 .. calls :
             /\ appendCalls[k].chunk =
                  SubSeq(dataToTransfer, (k - 1) * CHUNK_SIZE + 1, Min(k * CHUNK_SIZE, n))
             /\ Len(appendCalls[k].chunk) >= 1
             /\ Len(appendCalls[k].chunk) <= CHUNK_SIZE
             /\ k < CeilDiv(n, CHUNK_SIZE) => Len(appendCalls[k].chunk) = CHUNK_SIZE
        /\ (pc = "delete" \/ (pc = "done" /\ result.success)) =>
             /\ calls = CeilDiv(n, CHUNK_SIZE)
             /\ [k \in 1 .. calls |-> appendCalls[k].chunk] = ChunksOf(dataToTransfer)
             /\ RowsAppended = n

\* C7 witness: 150 accepted rows went out as a chunk of 100 and a chunk of 50
C7_Witness ==
  /\ InTransfer /\ pc = "done" /\ result.success
  /\ Len(dataToTransfer) = CHUNK_SIZE + 50
  /\ Len(appendCalls) = 2
  /\ Len(appendCalls[1].chunk) = CHUNK_SIZE
  /\ Len(appendCalls[2].chunk) = 50

StrictlyIncreasing(seq) == \A k \in 1 .. Len(seq) - 1 : seq[k] < seq[k + 1]

\* C8: for n candidate rows, the uniqueRows and duplicateRows that
\* findDuplicates returns share no index, together hold every index
\* 0 .. n - 1 exactly once, and are each in increasing order.
C8_UniqueAndDuplicateIndicesPartition ==
  (InTransfer /\ sourceData.error = "" /\ sourceData.rowCount > 0
     /\ params.destSheetName = DestSheetName) =>
    LET n == Len(sourceData.rows)
        U == { uniqueRows[k] : k \in 1 .. Len(uniqueRows) }
        D == { duplicateRows[k] : k \in 1 .. Len(duplicateRows) }
    IN  /\ U \cap D = {}
        /\ U \cup D = 0 .. n - 1
        /\ Len(uniqueRows) + Len(duplicateRows) = n
        /\ StrictlyIncreasing(uniqueRows)
        /\ StrictlyIncreasing(duplicateRows)

\* C8 witness: a unique row, then a duplicate, then another unique row
C8_Witness ==
  /\ InTransfer /\ sourceData.error = ""
  /\ Len(duplicateRows) >= 1 /\ Len(uniqueRows) >= 2
  /\ uniqueRows[1] < duplicateRows[1]
  /\ duplicateRows[1] < uniqueRows[Len(uniqueRows)]

\* C9: a candidate row is flagged as a duplicate exactly when its key is not
\* empty and is the key of a destination row or of an earlier candidate row
\* that was accepted; a row with an empty key is never flagged. Stated of the
\* duplicate check of code.gs (ORDER ID and TRACKING ID), run on the sheets
\* and dates of the call.
C9_FlaggedIffKeySeenBefore ==
  InTransfer =>
    LET r == CodeGsPrepare(src0, dst0, params.fromDate, params.toDate)
        orderIdIndex == OrderIdIndex(src0.headers)
        trackingIdIndex == TrackingIdIndex(src0.headers)
        KeyOf(index) == TwoPartKey(r.rows[index + 1], orderIdIndex, trackingIdIndex)
        HasKey(index) == /\ Truthy(Cell(r.rows[index + 1], orderIdIndex))
                         /\ Truthy(Cell(r.rows[index + 1], trackingIdIndex))
        Flagged(index) == \E k \in 1 .. Len(r.duplicateRows) : r.duplicateRows[k] = index
        Accepted(index) == \E k \in 1 .. Len(r.uniqueRows) : r.uniqueRows[k] = index
    IN  r.error = "" =>
          \A index \in 0 .. Len(r.rows) - 1 :
            Flagged(index) <=>
              /\ HasKey(index)
              /\ \/ KeyOf(index) \in r.existingKeys
                 \/ \E j \in 0 .. index - 1 :
                      Accepted(j) /\ HasKey(j) /\ KeyOf(j) = KeyOf(index)

\* The same property of findDuplicates of GAS_code.gs (ORDER ID alone), which
\* does add the key of every accepted row to the keys it compares with.
FindDuplicatesFlagsIffKeySeenBefore ==
  (InTransfer /\ sourceData.error = "" /\ sourceData.rowCount > 0
     /\ params.destSheetName = DestSheetName
     /\ Len(sourceData.rows) <= MaxArb) =>
    LET existingData == IF GetLastRow(dst0) > 1 THEN dst0.rows ELSE << >>
        KeyOf(index) == OrderIdOf(sourceData.rows[index + 1])
        Flagged(index) == \E k \in 1 .. Len(duplicateRows) : duplicateRows[k] = index
        Accepted(index) == \E k \in 1 .. Len(uniqueRows) : uniqueRows[k] = index
    IN  \A index \in 0 .. Len(sourceData.rows) - 1 :
          Flagged(index) <=>
            /\ Truthy(KeyOf(index))
            /\ \/ \E e \in 1 .. Len(existingData) : OrderIdOf(existingData[e]) = KeyOf(index)
               \/ \E j \in 0 .. index - 1 : Accepted(j) /\ KeyOf(j) = KeyOf(index)

C11_ToDateInclusiveThroughEndOfDay ==
  (InTransfer /\ sourceData.error = "" /\ GetLastRow(src0) >= 2) =>
    LET dateColIndex == DateColIndex(src0.headers)
        statusColIndex == StatusColIndex(src0.headers)
        fromDateObj == NewDate(params.fromDate)
        endOfToDate == NewDate(params.toDate) + MS_PER_DAY - 1
    IN  \A k \in 1 .. Len(src0.rows) :
          LET row == src0.rows[k]
              d == NewDate(Cell(row, dateColIndex))
          IN  ( /\ d # NaN
                /\ fromDateObj <= d
                /\ d <= endOfToDate
                /\ (params.status # "" /\ statusColIndex # -1) =>
                     ToLowerCase(Trim(Cell(row, statusColIndex))) = ToLowerCase(params.status) )
              => \E f \in 1 .. Len(filteredIndex) : filteredIndex[f] = k - 1

\* The same inclusion for getFilteredData of code.gs, which moves toDateObj
\* to 23:59:59.999 before comparing (and has no status filter).
CodeGsToDateInclusiveThroughEndOfDay ==
  (InTransfer /\ Len(src0.rows) <= MaxArb) =>
    LET r == CodeGsGetFilteredData(src0, params.fromDate, params.toDate)
        dateColumnIndex == DateColIndex(src0.headers)
        InRange(row) ==
          LET d == NewDate(Cell(row, dateColumnIndex))
          IN  /\ d # NaN
              /\ NewDate(params.fromDate) <= d
              /\ d <= NewDate(params.toDate) + MS_PER_DAY - 1
    IN  r.error = "" =>
          r.rows = SelectSeq([k \in 1 .. Len(src0.rows) |-> SerializeRow(src0.rows[k])], InRange)

\* the canonical headers no destination header equals after trimming and
\* upper-casing, in canonical spelling and order
MissingHeaders(destHeaders) ==
  LET Absent(h) == \A k \in 1 .. Len(destHeaders) :
                     NormalizeHeader(destHeaders[k]) # NormalizeHeader(h)
  IN  SelectSeq(REQUIRED_HEADERS, Absent)

\* the destination headers no canonical header equals after trimming and
\* upper-casing, in the destination's spelling and order
ExtraHeaders(destHeaders) ==
  LET Foreign(d) == \A k \in 1 .. Len(REQUIRED_HEADERS) :
                      NormalizeHeader(REQUIRED_HEADERS[k]) # NormalizeHeader(d)
  IN  SelectSeq(destHeaders, Foreign)

\* r reports, up to trimming and upper-casing, the missing and the extra
\* headers of destHeaders, and is null exactly when there are none
ReportIsExact(r, destHeaders) ==
  /\ r.isNull <=> (MissingHeaders(destHeaders) = << >> /\ ExtraHeaders(destHeaders) = << >>)
  /\ ~r.isNull =>
       /\ NormalizeHeaders(r.missing) = NormalizeHeaders(MissingHeaders(destHeaders))
       /\ NormalizeHeaders(r.extra) = NormalizeHeaders(ExtraHeaders(destHeaders))

\* C12: validateHeaders compares headers after trimming and upper-casing:
\* missing is exactly the canonical headers absent from the destination,
\* extra is exactly the destination headers absent from the canonical set,
\* and the result is null exactly when both are empty. Stated of
\* validateHeaders of code.gs, run on the header rows of the call.
C12_MissingAndExtraAreExact ==
  op = "validateHeaders" =>
    ReportIsExact(CodeGsValidateHeaders(src0.headers, dst0.headers), dst0.headers)

\* The same property of validateHeaders of GAS_code.gs, whose extra is taken
\* from the destination headers.
ValidateHeadersReportIsExact ==
  op = "validateHeaders" => ReportIsExact(result, dst0.headers)

\* Scenario E on GAS_code.gs: a destination lacking only CUSTOMER NAME gives
\* missing = [CUSTOMER NAME] and extra = [].
ScenarioE_Reached ==
  /\ op = "validateHeaders"
  /\ dst0.headers = SubSeq(REQUIRED_HEADERS, 1, 3) \o SubSeq(REQUIRED_HEADERS, 5, 14)
  /\ result = MismatchReport(<< "CUSTOMER NAME" >>, << >>)

\* C13: in a mismatch report every entry of missing is the canonical
\* spelling of the header and every entry of extra is the destination
\* sheet's own spelling of it, untrimmed and in its own case.
C13_ReportKeepsOriginalSpelling ==
  (op = "validateHeaders" /\ ~result.isNull) =>
    /\ result.missing = MissingHeaders(dst0.headers)
    /\ result.extra = ExtraHeaders(dst0.headers)

\* C14: when the filter returns no row, or every row it returns is a
\* duplicate, executeDataTransfer returns success with transferredRows = 0
\* and has issued no append, no deleteRows and no sheet.deleteRow call, in
\* copy mode and in move mode; both sheets are as they were.
C14_NothingToTransferChangesNothing ==
  ( /\ InTransfer /\ sourceData.error = ""
    /\ (sourceData.rowCount = 0 \/ Len(duplicateRows) = Len(sourceData.rows)) )
  => /\ pc = "done"
     /\ result.success = TRUE
     /\ result.transferredRows = 0
     /\ appendCalls = << >>
     /\ deleteRowsCalls = << >>
     /\ deleteCalls = << >>
     /\ src = src0
     /\ dst = dst0

\* C14 witness: a move whose filtered rows, two of them, are all duplicates
C14_Witness ==
  /\ InTransfer /\ pc = "done" /\ params.mode = "move"
  /\ sourceData.error = ""
  /\ Len(sourceData.rows) = 2
  /\ Len(duplicateRows) = 2
  /\ result.duplicatesFound = 2

\* a move whose filter returned no row
C14_WitnessNoRows ==
  /\ InTransfer /\ pc = "done" /\ params.mode = "move"
  /\ sourceData.error = ""
  /\ Len(src0.rows) > 0
  /\ sourceData.rowCount = 0
  /\ result.success

\* --- C15 ---------------------------------------------------------------

\* how far a status is along pending -> processing -> {completed | failed}
StatusRank(status) ==
  CASE status = "pending"    -> 0
    [] status = "processing" -> 1
    [] OTHER                 -> 2

\* C15: the status of a Transfer Record only moves along
\* pending -> processing -> {completed | failed}: in no step does a record of
\* the tracker leave completed or failed, or move backwards.  (Stated in its
\* weakest reading: a step that skips a status is let through.)
C15_StatusNeverMovesBackwards ==
  [][ /\ \A id \in DOMAIN transfers :
           \/ transfers'[id].status = transfers[id].status
           \/ StatusRank(transfers'[id].status) > StatusRank(transfers[id].status)
      /\ \A id \in DOMAIN transferProgress :
           \/ transferProgress'[id].status = transferProgress[id].status
           \/ StatusRank(transferProgress'[id].status)
                > StatusRank(transferProgress[id].status) ]_vars

\* --- C16 ---------------------------------------------------------------

\* C16: after every update, every Transfer Record has
\* processedRows <= totalRows and 0 <= progress <= 100.
C16_CountsAndProgressInRange ==
  /\ \A id \in DOMAIN transfers :
       /\ transfers[id].processedRows <= transfers[id].totalRows
       /\ 0 <= transfers[id].progress /\ transfers[id].progress <= 100
  /\ \A id \in DOMAIN transferProgress :
       /\ transferProgress[id].stats.processedRows <= transferProgress[id].stats.totalRows
       /\ 0 <= transferProgress[id].progress /\ transferProgress[id].progress <= 100

\* the same, of the records the transfer route stores
RouteRecordsInRange ==
  \A id \in DOMAIN transferProgress :
    /\ transferProgress[id].stats.processedRows <= transferProgress[id].stats.totalRows
    /\ 0 <= transferProgress[id].progress /\ transferProgress[id].progress <= 100

\* a route record whose processedRows equals its totalRows
RouteRecordAtTheLimit ==
  \E id \in DOMAIN transferProgress :
    transferProgress[id].stats.processedRows = transferProgress[id].stats.totalRows

\* --- C17 ---------------------------------------------------------------

\* C17: a lookup of an identifier that was never created signals NotFound
\* (the route: 404 with message 'Transfer not found'; getTransfer: undefined),
\* and a lookup of a record that exists returns that record, so the two
\* answers differ even when the record is still pending.
C17_UnknownIdIsNotFound ==
  [][ lookup' # lookup =>
        IF lookup'.op = "progress"
        THEN IF MapHas(transferProgress, lookup'.id)
             THEN /\ lookup'.code = 200
                  /\ lookup'.body = MapGet(transferProgress, lookup'.id)
             ELSE /\ lookup'.code = 404
                  /\ lookup'.body = [message |-> "Transfer not found"]
        ELSE IF MapHas(transfers, lookup'.id)
             THEN /\ lookup'.body = MapGet(transfers, lookup'.id)
                  /\ lookup'.body # Undefined
             ELSE lookup'.body = Undefined ]_vars

\* getTransfer of a never-created identifier has returned undefined while a
\* pending record exists
C17_Witness ==
  /\ lookup.op = "getTransfer"
  /\ lookup.body = Undefined
  /\ \E id \in DOMAIN transfers : transfers[id].status = "pending"

\* the route has answered 404 for an identifier it never stored, while it
\* holds a record under another identifier
C17_WitnessRoute ==
  /\ lookup.op = "progress"
  /\ lookup.code = 404
  /\ ~MapHas(transferProgress, lookup.id)
  /\ transferProgress # EmptyMap

\* --- C18 ---------------------------------------------------------------

\* C18: polling is read-only: a step in which a lookup is answered leaves the
\* record map, and with it every record, as it was.
C18_LookupsChangeNothing ==
  [][ lookup' # lookup =>
        /\ transferProgress' = transferProgress
        /\ transfers' = transfers ]_vars

\* a record that exists has been looked up: by the route, and by getTransfer
C18_Witness ==
  /\ lookup.op = "progress"
  /\ lookup.code = 200
  /\ MapHas(transferProgress, lookup.id)

C18_WitnessGetTransfer ==
  /\ lookup.op = "getTransfer"
  /\ lookup.body # Undefined
  /\ MapHas(transfers, lookup.id)

\* --- C19 ---------------------------------------------------------------

\* a transfer has started and not ended: executeTransfer of request r is at
\* one of its awaits
TransferRunning(r) == reqs[r].pc \in {"appendChunk", "deleteRows"}

\* C19: a Transfer Record exists from the moment a transfer starts: while the
\* transfer runs, a lookup of its identifier finds a record, and that record
\* is not yet completed or failed.
C19_RecordExistsWhileTransferRuns ==
  \A r \in 1 .. MaxRequests :
    TransferRunning(r) =>
      /\ ProgressResponse(reqs[r].transferId).code = 200
      /\ ProgressResponse(reqs[r].transferId).body.status \in {"pending", "processing"}

\* the progress route has answered 404 for the identifier of a transfer that
\* is appending its chunks
C19_LookupDuringTransferNotFound ==
  \E r \in 1 .. MaxRequests :
    /\ reqs[r].pc = "appendChunk"
    /\ lookup.op = "progress"
    /\ lookup.id = reqs[r].transferId
    /\ lookup.code = 404

\* --- C20 ---------------------------------------------------------------

\* request r has been answered with the identifier of its transfer
TransferAnswered(r) == reqs[r].response.code = 200

\* C20: however two or more transfers interleave, no record update is lost:
\* each transfer has an identifier of its own, and the record under that
\* identifier carries the statistics of that transfer.
C20_EveryTransferKeepsItsOwnRecord ==
  \A r \in 1 .. MaxRequests :
    TransferAnswered(r) =>
      /\ MapHas(transferProgress, reqs[r].response.transferId)
      /\ MapGet(transferProgress, reqs[r].response.transferId) = CompletedRecord(reqs[r])
      /\ \A q \in 1 .. MaxRequests :
           q # r /\ reqs[q].transferId # "" => reqs[q].transferId # reqs[r].transferId

\* two answered transfers with different statistics were given one identifier,
\* and the record of the first is gone
C20_RecordOverwritten ==
  /\ TransferAnswered(1) /\ TransferAnswered(2)
  /\ reqs[1].response.transferId = reqs[2].response.transferId
  /\ CompletedRecord(reqs[1]) # CompletedRecord(reqs[2])
  /\ Cardinality(DOMAIN transferProgress) = 1

\* --- C21 ---------------------------------------------------------------

\* C21: the duplicate-handling policies 'update' and 'add_all' are accepted
\* and do what 'skip' does: the record of every answered transfer counts the
\* rows and the duplicates that the same request with 'skip' transfers and
\* counts.
C21_EveryPolicyTransfersWhatSkipDoes ==
  \A r \in 1 .. MaxRequests :
    TransferAnswered(r) =>
      /\ reqs[r].dataLength
           = Len(RowsToTransfer(SampleRows(reqs[r].rowCount), "skip"))
      /\ reqs[r].duplicateCount
           = DuplicateCount(SampleRows(reqs[r].rowCount), "skip")

\* a request with 'add_all' has been accepted and answered
C21_PolicyAccepted ==
  \E r \in 1 .. MaxRequests :
    TransferAnswered(r) /\ reqs[r].duplicateHandling = "add_all"

\* --- C22 ---------------------------------------------------------------

\* the rows written are the rows of the chunk, each padded or cut down to the
\* number of columns of the destination sheet.  A row is read as the sheet
\* shows it: a cell that was not written reads as the empty string, so a
\* short row written as it is counts as padded.
WrittenToDestinationWidth(before, after, chunk) ==
  /\ Len(after.rows) = Len(before.rows) + Len(chunk)
  /\ \A k \in 1 .. Len(chunk) :
       LET written == after.rows[Len(before.rows) + k]
       IN  \A c \in 0 .. Max(Len(written), Len(chunk[k])) :
             Cell(written, c) = IF c < Len(before.headers) THEN Cell(chunk[k], c) ELSE ""

\* C22: every row written by a chunk append has exactly as many cells as the
\* destination sheet has columns: shorter rows are padded on the right with
\* empty strings, longer rows lose their extra trailing cells.
C22_RowsFitTheDestinationColumns ==
  op = "appendDataChunk" =>
    WrittenToDestinationWidth(dst0, dst, appendCalls[1].chunk)

\* the same, of appendChunk of code.gs on the same sheet and chunk
CodeGsRowsFitTheDestinationColumns ==
  op = "appendDataChunk" =>
    WrittenToDestinationWidth(dst0, CodeGsAppendChunk(dst0, appendCalls[1].chunk),
                              appendCalls[1].chunk)

\* a chunk whose rows are as wide as a source header row of five columns has
\* been written to a destination of four columns
C22_WiderSourceWritten ==
  /\ op = "appendDataChunk"
  /\ Len(src.headers) = 5 /\ Len(dst.headers) = 4
  /\ \A k \in 1 .. Len(appendCalls[1].chunk) : Len(appendCalls[1].chunk[k]) = 5
  /\ \E k \in 1 .. Len(dst.rows) : Len(dst.rows[k]) = 5

\* --- C23 ---------------------------------------------------------------

\* two rows show the same cells in the sheet
SameCells(a, b) == \A c \in 0 .. Max(Len(a), Len(b)) : Cell(a, c) = Cell(b, c)

\* C23: chunks are written one after the other, each below the last row the
\* destination has when it is written: at every point of a transfer the
\* destination's data rows are the rows it had before, unchanged and in
\* place, followed without a gap by the accepted rows transferred so far, in
\* their original order; after a successful transfer these are all accepted
\* rows.
C23_DestinationGrowsByTheAcceptedRows ==
  InTransfer =>
    /\ Len(dst.rows) = Len(dst0.rows) + transferredCount
    /\ SubSeq(dst.rows, 1, Len(dst0.rows)) = dst0.rows
    /\ \A k \in 1 .. transferredCount :
         SameCells(dst.rows[Len(dst0.rows) + k], dataToTransfer[k])
    /\ (pc = "done" /\ result.success => transferredCount = Len(dataToTransfer))

\* a transfer of two chunks into a destination that held a row has succeeded
C23_Witness ==
  /\ InTransfer /\ pc = "done" /\ result.success
  /\ Len(appendCalls) = 2
  /\ Len(dst0.rows) >= 1
  /\ Len(dst.rows) = Len(dst0.rows) + Len(dataToTransfer)

\* --- C24 ---------------------------------------------------------------

\* C24: the header row is never deleted: whatever row numbers deleteRows is
\* given (1, 0, negative numbers and numbers past the last row included), row
\* 1 stays in place, and the numbers out of range are skipped without error:
\* every sheet.deleteRow call it issues names a data row the sheet has at
\* that moment, and the sheet loses exactly one data row per call.
C24_HeaderRowSurvivesDeleteRows ==
  op = "deleteRows" =>
    /\ src.headers = src0.headers
    /\ \A j \in 1 .. Len(deleteCalls) :
         /\ deleteCalls[j] > 1
         /\ deleteCalls[j] <= GetLastRow(src0) - (j - 1)
    /\ Len(src.rows) = Len(src0.rows) - Len(deleteCalls)
    /\ \A k \in 1 .. Len(src.rows) : \E j \in 1 .. Len(src0.rows) : src.rows[k] = src0.rows[j]

\* deleteRows was given row 1, a number below 1 and the number of a data row,
\* and has deleted the data row
C24_Witness ==
  /\ op = "deleteRows"
  /\ \E a, b, c \in 1 .. Len(deleteRowsCalls[1].rowNums) :
       /\ deleteRowsCalls[1].rowNums[a] = 1
       /\ deleteRowsCalls[1].rowNums[b] < 1
       /\ deleteRowsCalls[1].rowNums[c] > 1
  /\ Len(deleteCalls) = 1

\* deleteRows was given a number past the last row only, and has deleted nothing
C24_WitnessPastLastRow ==
  /\ op = "deleteRows"
  /\ \A a \in 1 .. Len(deleteRowsCalls[1].rowNums) :
       deleteRowsCalls[1].rowNums[a] > GetLastRow(src0)
  /\ src = src0

\* a transfer, in either mode, leaves both header rows in place, and the rows
\* it filters and compares are data rows: none is the header row
HeaderRowsSurviveTransfer ==
  InTransfer =>
    /\ src.headers = src0.headers
    /\ dst.headers = dst0.headers
    /\ \A k \in 1 .. Len(sourceRowNumbers) : sourceRowNumbers[k] > 1

\* --- C25 ---------------------------------------------------------------

\* the message the caller is to get when the k-th chunk (1-based) fails
NamesChunk(k, cause) ==
  "Transfer failed: Failed to transfer chunk " \o ToString(k) \o ": " \o cause

\* C25: when the append of the k-th chunk (1-based) fails, the message
\* returned to the caller names chunk k: "Failed to transfer chunk k:"
\* followed by the cause. The k-th chunk is the one of the k-th
\* appendDataChunk call.
C25_FailureNamesTheChunk ==
  (InTransfer /\ pc = "done" /\ AppendFailed) =>
    result.message = NamesChunk(Len(appendCalls), "Failed to append data chunk: Service error")

\* the second of two chunks has failed
C25_SecondChunkFailed ==
  /\ InTransfer /\ pc = "done"
  /\ Len(appendCalls) = 2
  /\ appendCalls[1].ok /\ ~appendCalls[2].ok

\* code.gs: the error thrown for chunks[k - 1], in the value its catch block
\* returns, names chunk k, for every chunk of the rows to transfer
CodeGsFailureNamesTheChunk ==
  (InTransfer /\ pc = "transfer") =>
    \A k \in 1 .. Len(ChunksOf(dataToTransfer)) :
      "Transfer failed: " \o CodeGsChunkError(k - 1, "Service error") = NamesChunk(k, "Service error")

\* --- C26 ---------------------------------------------------------------

\* C26: if the identity column cannot be located, duplicate detection
\* degrades instead of failing: every candidate index is unique, none is a
\* duplicate, and the transfer is not reported as failed. Stated of the
\* duplicate step of code.gs (ORDER ID and TRACKING ID columns, located in
\* the source's header row), run on the sheets and dates of the call, when
\* the steps before it have succeeded and found rows.
C26_DegradesWhenIdentityColumnMissing ==
  InTransfer =>
    LET sd == CodeGsGetFilteredData(src0, params.fromDate, params.toDate)
        ek == GetExistingKeys(dst0)
        r == CodeGsPrepare(src0, dst0, params.fromDate, params.toDate)
    IN  ( /\ sd.error = "" /\ sd.rowCount > 0 /\ ek.error = ""
          /\ (OrderIdIndex(sd.headers) = -1 \/ TrackingIdIndex(sd.headers) = -1) )
        => /\ r.error = ""
           /\ r.uniqueRows = ArrayOf([k \in 1 .. sd.rowCount |-> k - 1])
           /\ r.duplicateRows = << >>

\* a source sheet without a TRACKING ID column, with rows in the date range
C26_IdentityColumnMissing ==
  /\ InTransfer
  /\ TrackingIdIndex(src0.headers) = -1
  /\ CodeGsGetFilteredData(src0, params.fromDate, params.toDate).rowCount > 0

\* GAS_code.gs: a transfer is reported as failed only when the filter step,
\* the lookup of the destination sheet or a chunk append has failed, never
\* because of duplicate detection, whatever columns the source sheet has
GasTransferNeverFailsOnDuplicateDetection ==
  (InTransfer /\ pc = "done" /\ ~result.success) =>
    (sourceData.error # "" \/ params.destSheetName # DestSheetName \/ AppendFailed)

\* --- C27 ---------------------------------------------------------------

\* the step of the call that has failed, "" when none has
FailedStep ==
  IF params.sourceSheetName # SourceSheetName THEN "source sheet"
  ELSE IF GetLastRow(src0) >= 2 /\ DateColIndex(src0.headers) = -1 THEN "date column"
  ELSE IF sourceData.rowCount > 0 /\ params.destSheetName # DestSheetName THEN "destination sheet"
  ELSE IF AppendFailed THEN "chunk append"
  ELSE ""

\* the messages that name the failed step
MessagesNaming(step) ==
  CASE step = "source sheet" ->
         { "Transfer failed: Failed to filter data: Sheet \"" \o params.sourceSheetName
           \o "\" not found in spreadsheet" }
    [] step = "date column" ->
         { "Transfer failed: Failed to filter data: Date column not found. Please ensure your sheet has a DATE column." }
    [] step = "destination sheet" ->
         { "Transfer failed: Destination sheet \"" \o params.destSheetName \o "\" not found" }
    [] step = "chunk append" ->
         { "Transfer failed: Failed to transfer chunk " \o ToString(n)
           \o ": Failed to append data chunk: Service error" : n \in 1 .. Len(dataToTransfer) }
    [] OTHER -> {}

\* C27: whatever step of executeDataTransfer fails (source sheet or date
\* column not found, destination sheet not found, chunk append), the call
\* ends by returning a result with success = false whose message names the
\* failed operation; and when the source or the destination sheet is not
\* found, nothing has been written: no append or delete call was made and
\* both sheets are as they were.
C27_FailuresAreReturnedAsResults ==
  (InTransfer /\ pc # "done" ) \/ ~InTransfer \/
    ( /\ (FailedStep # "" =>
            /\ result.success = FALSE
            /\ result.message \in MessagesNaming(FailedStep))
      /\ (FailedStep = "" => result.success = TRUE)
      /\ (FailedStep \in {"source sheet", "destination sheet"} =>
            /\ appendCalls = << >> /\ deleteRowsCalls = << >>
            /\ dst = dst0 /\ src = src0) )

\* a call for a destination sheet that does not exist, with rows to transfer
C27_DestinationNotFound ==
  /\ InTransfer /\ pc = "done"
  /\ FailedStep = "destination sheet"
  /\ sourceData.rowCount > 0

\* a call for a source sheet that does not exist
C27_SourceNotFound == InTransfer /\ pc = "done" /\ FailedStep = "source sheet"

\* a call on a source sheet with rows and no date column
C27_DateColumnNotFound == InTransfer /\ pc = "done" /\ FailedStep = "date column"

\* a call whose second chunk append failed
C27_ChunkAppendFailed ==
  InTransfer /\ pc = "done" /\ FailedStep = "chunk append" /\ Len(appendCalls) = 2

\* --- C28 ---------------------------------------------------------------

\* C28: in copy mode the source sheet is never modified: in every state of a
\* copy transfer, whatever its outcome, no deleteRows call and no
\* sheet.deleteRow call has been issued and the source sheet is as it was
\* when the call started.
C28_CopyLeavesTheSourceAlone ==
  (InTransfer /\ params.mode = "copy") =>
    /\ deleteRowsCalls = << >>
    /\ deleteCalls = << >>
    /\ src = src0

\* a copy that has transferred rows and ended with success
C28_CopySucceeded ==
  /\ InTransfer /\ params.mode = "copy" /\ pc = "done"
  /\ result.success /\ transferredCount > 0

\* a copy that found no row in the date range
C28_CopyOfZeroRows ==
  /\ InTransfer /\ params.mode = "copy" /\ pc = "done"
  /\ result.message = "No data found for the selected date range."
  /\ Len(src0.rows) > 0

\* a copy whose rows were all duplicates
C28_CopyAllDuplicates ==
  /\ InTransfer /\ params.mode = "copy" /\ pc = "done"
  /\ result.message = "All rows are duplicates. No data was transferred."

\* a copy whose second chunk failed
C28_CopyChunkFailed ==
  /\ InTransfer /\ params.mode = "copy" /\ pc = "done"
  /\ AppendFailed /\ transferredCount > 0

\* the routes and the stub service: a request in copy mode never comes to
\* call deleteRows
CopyRequestNeverDeletes ==
  op = "transferRoutes" =>
    \A r \in 1 .. MaxRequests : reqs[r].mode = "copy" => reqs[r].pc # "deleteRows"

\* a request in move mode is waiting for deleteRows
MoveRequestDeletes ==
  /\ op = "transferRoutes"
  /\ \E r \in 1 .. MaxRequests : reqs[r].mode = "move" /\ reqs[r].pc = "deleteRows"

\* --- C29 ---------------------------------------------------------------

\* the second run of the same transfer
InSecondRun == op = "executeDataTransferAgain"

\* every filtered source row has a non-empty ORDER ID
EveryRowHasOrderId ==
  \A k \in 1 .. Len(sourceData.rows) : OrderIdOf(sourceData.rows[k]) # ""

\* no row appended since the call started has the ORDER ID of a row the
\* destination held when the call started, or of another appended row
AppendsNoHeldRow ==
  \A k \in Len(dst0.rows) + 1 .. Len(dst.rows) :
    \A j \in 1 .. Len(dst.rows) :
      j # k => OrderIdOf(dst.rows[j]) # OrderIdOf(dst.rows[k])

\* C29: re-running a transfer is idempotent on the destination: when every
\* filtered source row has a non-empty ORDER ID, the second run of the same
\* copy transfer (after a success, or after a failure that left earlier
\* chunks written) appends no row that the destination already holds, and a
\* second run after a success reports transferredRows = 0 with all rows
\* counted as duplicates. The first run has succeeded exactly when the
\* second ends with success and no append call of either run has failed.
C29_SecondRunIsIdempotent ==
  (InSecondRun /\ params.mode = "copy" /\ sourceData.error = "" /\ EveryRowHasOrderId) =>
    /\ AppendsNoHeldRow
    /\ ((pc = "done" /\ result.success /\ ~AppendFailed) =>
          /\ dst = dst0
          /\ result.transferredRows = 0
          /\ result.duplicatesFound = sourceData.rowCount)

\* the second run of a copy that had succeeded with two rows, which are now
\* both counted as duplicates
C29_SecondRunAfterSuccess ==
  /\ InSecondRun /\ params.mode = "copy" /\ pc = "done"
  /\ EveryRowHasOrderId /\ sourceData.rowCount >= 2
  /\ Len(appendCalls) = 1 /\ appendCalls[1].ok /\ Len(appendCalls[1].chunk) >= 2
  /\ result.success /\ result.duplicatesFound = sourceData.rowCount

\* the second run of a copy whose second chunk had failed: it has appended
\* the rows of the second chunk below those of the first
C29_SecondRunAfterFailure ==
  /\ InSecondRun /\ params.mode = "copy" /\ pc = "done"
  /\ EveryRowHasOrderId
  /\ Len(appendCalls) = 3
  /\ appendCalls[1].ok /\ ~appendCalls[2].ok /\ appendCalls[3].ok
  /\ result.success /\ result.transferredRows = Len(appendCalls[2].chunk)

\* without the condition on the ORDER IDs the second run does append rows
\* again: those whose ORDER ID is empty
SecondRunIsIdempotentForAnyRows ==
  (InSecondRun /\ params.mode = "copy" /\ sourceData.error = ""
     /\ pc = "done" /\ result.success /\ ~AppendFailed) => dst = dst0

\* --- C30 ---------------------------------------------------------------

\* both concurrent calls have returned
BothReturned == op = "concurrentTransfers" /\ \A t \in Transfers : runs[t].pc = "done"

\* no two destination rows share a non-empty ORDER ID
OrderIdsDistinct ==
  \A j, k \in 1 .. Len(dst.rows) :
    (j < k /\ OrderIdOf(dst.rows[j]) # "") => OrderIdOf(dst.rows[j]) # OrderIdOf(dst.rows[k])

\* every row a call has written is still in the destination, below the rows
\* it held before
NothingOverwritten ==
  Len(dst.rows) = Len(dst0.rows) + runs[1].transferredCount + runs[2].transferredCount

\* C30: for every interleaving of two concurrent transfers into the same
\* destination sheet, the destination ends up with no two rows sharing a
\* non-empty ORDER ID and with no appended row overwritten.
C30_ConcurrentTransfersAreAtomic ==
  BothReturned => (OrderIdsDistinct /\ NothingOverwritten)

\* the same of two calls of which the second started after the first had
\* returned
SerialTransfersKeepTheDestinationSound ==
  (BothReturned /\ \A t \in Transfers : ~runs[t].overlapped) =>
    (OrderIdsDistinct /\ NothingOverwritten)

\* two calls that did not overlap have both returned, the first having
\* appended rows and the second having found them as duplicates
C30_SerialTransfersReached ==
  /\ BothReturned
  /\ \A t \in Transfers : ~runs[t].overlapped
  /\ \E t, u \in Transfers : runs[t].transferredCount > 0 /\ runs[u].duplicatesFound > 0

\* two overlapping calls have written the same ORDER ID twice
C30_SameOrderIdTwice == BothReturned /\ ~OrderIdsDistinct /\ NothingOverwritten

\* of two overlapping calls one has written over the rows of the other
C30_RowsOverwritten == BothReturned /\ ~NothingOverwritten

====
